---- MODULE Spec2Model ----
(***************************************************************************)
(* DePINfinity: the permissioned-layer lifecycle engines.                  *)
(*                                                                         *)
(* The roaming-agreement and infrastructure-contract state machines are    *)
(* Corda flows (Kotlin) whose transactions are checked by their contract's *)
(* verify function; MockCordaNetwork (TypeScript) is a second, in-memory   *)
(* implementation of create/execute.                                       *)
(*                                                                         *)
(* Time: java.time.Instant and Date.now() are a single integer clock `now` *)
(* in seconds that never goes back.  One flow run reads the clock as one   *)
(* value; two successive flows may read the same value.                    *)
(* Doubles that the code only compares against range limits are integers:  *)
(* percentages as they are, minimumQuality in hundredths (0..100 = 0..1).  *)
(***************************************************************************)
EXTENDS Integers, Sequences, FiniteSets, TLC

VARIABLES
    now,                 \* Instant.now() / Date.now()
    agreementVault,      \* unconsumed RoamingAgreementState records of the vault
    nextAgreementId,     \* UniqueIdentifier(): the next fresh agreement id
    contractVault,       \* unconsumed InfrastructureContractState records
    nextContractId,      \* UniqueIdentifier(): the next fresh contract id
    lastTx,              \* the last flow run: its transaction and how it ended
    executionsSinceSettlement,  \* history: accepted executes of a contract since its last accepted settle
    mockRoamingAgreements,        \* MockCordaNetwork.roamingAgreements: Map<id, agreement>
    mockInfrastructureContracts,  \* MockCordaNetwork.infrastructureContracts: Map<id, contract>
    mockLastCall,        \* the last call of a MockCordaNetwork method and how it ended
    lastCalc,            \* the last settlement calculation: its arguments and what it returned
    dataSubmissions,     \* the DataSubmission accounts of the Solana program
    migrationTimers,     \* CordaBridge: for each setInterval timer, when it is next due
    migrationRuns,       \* CordaBridge: the timer callbacks that are awaiting a result
    finishedRuns,        \* history: the timer callbacks that have returned
    cordaNetworkData,    \* what the Corda endpoint has received on POST /api/v1/network-data
    networkDataVault,    \* unconsumed NetworkDataState records of the vault
    nextNetworkDataId,   \* UniqueIdentifier(): the next fresh network data id
    lastFlowResult,      \* the last flow that returns a result object, and the object
    mockNetworkData,     \* MockCordaNetwork.networkData: NetworkData[]
    devices,             \* MockSolanaProgram.devices: Map<string, Device>
    programState,        \* MockSolanaProgram.programState
    rewardVault,         \* MockSolanaProgram.rewardVault
    solanaLastCall,      \* the last call of a MockSolanaProgram method: how it ended, what it emitted
    lastReward,          \* a call of calculateReward: its arguments and, once it has returned, the reward
    flowsInFlight,       \* the flows between their vault query and their FinalityFlow
    stateVersion,        \* history: for each agreement id, how many of its versions have been consumed
    consumedVersions,    \* history: how often the notary has recorded each version as consumed
    listeners,           \* MockSolanaProgram: for each event, the callbacks registered with on()
    demoSimulator,       \* DemoSimulator: isRunning, currentScenario, actionTimeouts
    demoRuns,            \* the calls of startDemo that got past the isRunning check, and how far they are
    demoLastStep,        \* history: what the demo did last, and which run did it
    webApp,              \* the web demo's app: isDataCollectionActive and its setInterval timers
    mobileClient         \* MobileDePINClient: isActive, dataInterval and its setInterval timers

vars == <<now, agreementVault, nextAgreementId, contractVault, nextContractId,
          lastTx, executionsSinceSettlement,
          mockRoamingAgreements, mockInfrastructureContracts, mockLastCall,
          lastCalc, dataSubmissions, migrationTimers, migrationRuns, finishedRuns,
          cordaNetworkData, networkDataVault, nextNetworkDataId, lastFlowResult,
          mockNetworkData, devices, programState, rewardVault, solanaLastCall, lastReward,
          flowsInFlight, stateVersion, consumedVersions,
          listeners, demoSimulator, demoRuns, demoLastStep, webApp, mobileClient>>

agreementVars == <<agreementVault, nextAgreementId>>
contractVars == <<contractVault, nextContractId, executionsSinceSettlement>>
mockStores == <<mockRoamingAgreements, mockInfrastructureContracts>>
solanaState == <<devices, programState, rewardVault>>
solanaVars == <<solanaState, solanaLastCall, lastReward>>
flowVars == <<flowsInFlight, stateVersion, consumedVersions>>
demoVars == <<demoSimulator, demoRuns, demoLastStep>>
appVars == <<webApp, mobileClient>>
clientVars == <<listeners, demoVars, appVars>>

\* what a Corda flow leaves alone outside the ledger, and a mock call outside the mock
settlementVars == <<lastCalc>>
bridgeVars == <<dataSubmissions, migrationTimers, migrationRuns, finishedRuns,
                cordaNetworkData>>
networkDataVars == <<networkDataVault, nextNetworkDataId, lastFlowResult>>
outsideCorda == <<mockStores, mockNetworkData, mockLastCall, settlementVars, bridgeVars,
                  networkDataVars>>
outsideMock == <<agreementVars, contractVars, lastTx, settlementVars, bridgeVars,
                 networkDataVars>>

----------------------------------------------------------------------------
(* Bounds of the model *)

\* the clock runs from day 0 to day MaxDays
MaxDays == 2

\* UniqueIdentifier(): the ids create can hand out, in this order
AgreementIdPool == {1, 2}
ContractIdPool == {1}

(* Program constants *)

SecondsPerDay == 86400

\* terminationTime: Instant? = null
NullInstant == -1

AgreementStatus == {"PENDING", "ACTIVE", "SUSPENDED", "TERMINATED", "EXPIRED"}

----------------------------------------------------------------------------
(* JavaScript numbers and Kotlin Doubles: IEEE-754 binary64, round to      *)
(* nearest, ties to even.  A double is its sign and its magnitude as a     *)
(* natural number of units of 2^-UnitBits; the magnitude is a sequence of  *)
(* limbs in base LimbBase, least significant first, <<>> for zero.  A      *)
(* double from 2^-38 up to 2^44 is a whole number of units with at most    *)
(* MantissaBits significant bits; the inputs drawn below stay within that  *)
(* range.  An operator that uses an argument or an intermediate result     *)
(* more than once binds it first (v \in {e}), so that it is computed once. *)

RECURSIVE BitLength(_)
BitLength(n) == IF n = 0 THEN 0 ELSE 1 + BitLength(n \div 2)

LimbBase == 2^15
LimbBits == BitLength(LimbBase) - 1
UnitBits == 6 * LimbBits
MantissaBits == 52 + 1

\* the element of a singleton
Val(S) == CHOOSE v \in S : TRUE

RECURSIVE BigNorm(_)
BigNorm(a) ==
    IF a = <<>> THEN <<>>
    ELSE IF a[Len(a)] = 0 THEN BigNorm(SubSeq(a, 1, Len(a) - 1)) ELSE a

BigLimb(a, i) == IF i <= Len(a) THEN a[i] ELSE 0

RECURSIVE BigAddFrom(_, _, _, _)
BigAddFrom(a, b, i, carry) ==
    IF i > Len(a) /\ i > Len(b)
    THEN IF carry = 0 THEN <<>> ELSE <<carry>>
    ELSE Val({<<t % LimbBase>> \o BigAddFrom(a, b, i + 1, t \div LimbBase) :
                 t \in {BigLimb(a, i) + BigLimb(b, i) + carry}})

BigAdd(a, b) == Val({BigAddFrom(av, bv, 1, 0) : av \in {a}, bv \in {b}})

\* a - b for a >= b
RECURSIVE BigSubFrom(_, _, _, _)
BigSubFrom(a, b, i, borrow) ==
    IF i > Len(a) THEN <<>>
    ELSE Val({IF t < 0
              THEN <<t + LimbBase>> \o BigSubFrom(a, b, i + 1, 1)
              ELSE <<t>> \o BigSubFrom(a, b, i + 1, 0) :
                 t \in {a[i] - BigLimb(b, i) - borrow}})

BigSub(a, b) == Val({BigNorm(BigSubFrom(av, bv, 1, 0)) : av \in {a}, bv \in {b}})

\* -1, 0, 1 as a < b, a = b, a > b (a and b normalised)
RECURSIVE BigCmpFrom(_, _, _)
BigCmpFrom(a, b, i) ==
    IF i = 0 THEN 0
    ELSE IF a[i] < b[i] THEN -1
    ELSE IF a[i] > b[i] THEN 1
    ELSE BigCmpFrom(a, b, i - 1)

BigCmp(a, b) ==
    Val({IF Len(av) < Len(bv) THEN -1
         ELSE IF Len(av) > Len(bv) THEN 1
         ELSE BigCmpFrom(av, bv, Len(av)) : av \in {a}, bv \in {b}})

\* a * k for 0 <= k < 2 * LimbBase
RECURSIVE BigMulSmallFrom(_, _, _, _)
BigMulSmallFrom(a, k, i, carry) ==
    IF i > Len(a)
    THEN IF carry = 0 THEN <<>> ELSE <<carry>>
    ELSE Val({<<t % LimbBase>> \o BigMulSmallFrom(a, k, i + 1, t \div LimbBase) :
                 t \in {a[i] * k + carry}})

BigMulSmall(a, k) ==
    Val({BigNorm(BigMulSmallFrom(av, kv, 1, 0)) : av \in {a}, kv \in {k}})

\* The quotient of a by k, 0 < k < 2 * LimbBase, from limb i down, most
\* significant limb first, followed by the remainder: rem is the remainder
\* of the limbs above i.
RECURSIVE BigDivSmallFrom(_, _, _, _)
BigDivSmallFrom(a, k, i, rem) ==
    IF i = 0 THEN <<rem>>
    ELSE Val({<<t \div k>> \o BigDivSmallFrom(a, k, i - 1, t % k) :
                 t \in {rem * LimbBase + a[i]}})

RECURSIVE Reverse(_)
Reverse(s) == IF s = <<>> THEN <<>> ELSE Reverse(Tail(s)) \o <<Head(s)>>

\* quotient and remainder of a by k
BigDivSmall(a, k) ==
    Val({[q |-> BigNorm(Reverse(SubSeq(d, 1, Len(d) - 1))), r |-> d[Len(d)]] :
            d \in {Val({BigDivSmallFrom(av, kv, Len(av), 0) : av \in {a}, kv \in {k}})}})

BigBitLength(a) ==
    Val({IF av = <<>> THEN 0 ELSE LimbBits * (Len(av) - 1) + BitLength(av[Len(av)]) :
            av \in {a}})

\* a * 2^n
BigShl(a, n) ==
    Val({IF av = <<>> THEN <<>>
         ELSE [i \in 1..(nv \div LimbBits) |-> 0] \o BigMulSmall(av, 2^(nv % LimbBits)) :
            av \in {a}, nv \in {n}})

\* floor(a / 2^n)
BigShr(a, n) ==
    Val({IF nv \div LimbBits >= Len(av) THEN <<>>
         ELSE BigDivSmall(SubSeq(av, nv \div LimbBits + 1, Len(av)),
                          2^(nv % LimbBits)).q :
            av \in {a}, nv \in {n}})

BigOdd(a) == Val({av # <<>> /\ av[1] % 2 = 1 : av \in {a}})

\* the value of a, for a below 2^31
RECURSIVE BigToNat(_)
BigToNat(a) ==
    IF a = <<>> THEN 0 ELSE a[1] + LimbBase * BigToNat(SubSeq(a, 2, Len(a)))

\* q, or q + 1 if up, times 2^shift
RoundedUp(q, up, shift) == BigShl(IF up THEN BigAdd(q, <<1>>) ELSE q, shift)

\* The quotient q of a division with remainder r by den, rounded to
\* MantissaBits significant bits, ties to even: the bits of q below the
\* last kept one are low, of which the first weighs half.
RoundKept(q, r, den, shift) ==
    IF shift <= 0
    THEN RoundedUp(q, 2 * r > den \/ (2 * r = den /\ BigOdd(q)), 0)
    ELSE Val({Val({RoundedUp(kept, c = 1 \/ (c = 0 /\ (r > 0 \/ BigOdd(kept))), shift) :
                      c \in {BigCmp(BigSub(q, BigShl(kept, shift)),
                                    BigShl(<<1>>, shift - 1))}}) :
                 kept \in {BigShr(q, shift)}})

\* num / den (den a small positive integer) as a double's magnitude
RoundQuot(num, den) ==
    Val({RoundKept(d.q, d.r, den, BigBitLength(d.q) - MantissaBits) :
            d \in {BigDivSmall(num, den)}})

DblZero == [neg |-> FALSE, mag |-> <<>>]

\* the double nearest to n / d, for integers |n| < 2 * LimbBase and
\* 0 < d < LimbBase
DblFromRatio(n, d) ==
    [neg |-> n < 0,
     mag |-> RoundQuot(BigMulSmall(BigShl(<<1>>, UnitBits), IF n < 0 THEN -n ELSE n), d)]

DblFromInt(n) == DblFromRatio(n, 1)

DblAddValues(x, y) ==
    IF x.neg = y.neg
    THEN [neg |-> x.neg /\ (x.mag # <<>> \/ y.mag # <<>>),
          mag |-> RoundQuot(BigAdd(x.mag, y.mag), 1)]
    ELSE Val({IF c = 0 THEN DblZero
              ELSE IF c = 1
              THEN [neg |-> x.neg, mag |-> RoundQuot(BigSub(x.mag, y.mag), 1)]
              ELSE [neg |-> y.neg, mag |-> RoundQuot(BigSub(y.mag, x.mag), 1)] :
                 c \in {BigCmp(x.mag, y.mag)}})

\* x + y
DblAdd(x, y) == Val({DblAddValues(xv, yv) : xv \in {x}, yv \in {y}})

\* x / n and x * k for small positive integers n, k
DblDivInt(x, n) == Val({[neg |-> xv.neg, mag |-> RoundQuot(xv.mag, n)] : xv \in {x}})

DblMulInt(x, k) ==
    Val({[neg |-> xv.neg /\ k # 0, mag |-> RoundQuot(BigMulSmall(xv.mag, k), 1)] :
            xv \in {x}})

\* x < y
DblLess(x, y) ==
    Val({IF xv.neg # yv.neg THEN xv.neg /\ (xv.mag # <<>> \/ yv.mag # <<>>)
         ELSE IF xv.neg THEN BigCmp(xv.mag, yv.mag) = 1
         ELSE BigCmp(xv.mag, yv.mag) = -1 : xv \in {x}, yv \in {y}})

DblLeq(x, y) == ~DblLess(y, x)

\* floor(a - 1/2) + 1 in whole units, for a magnitude a above 1/2: the
\* integer -Math.round(-a)
RoundHalfDown(a, half) ==
    Val({IF BigShl(fl, UnitBits) = BigSub(a, half)
         THEN BigToNat(fl) ELSE BigToNat(fl) + 1 :
            fl \in {BigShr(BigSub(a, half), UnitBits)}})

\* a * b
RECURSIVE BigMulFrom(_, _, _)
BigMulFrom(a, b, i) ==
    IF i > Len(b) THEN <<>>
    ELSE BigAdd(BigMulSmall(a, b[i]), <<0>> \o BigMulFrom(a, b, i + 1))

BigMul(a, b) == Val({BigNorm(BigMulFrom(av, bv, 1)) : av \in {a}, bv \in {b}})

\* the product p of two magnitudes, in units of 2^-(2 * UnitBits), as a
\* double's magnitude
RoundProduct(p) ==
    Val({BigShr(RoundKept(pv, 0, 1, BigBitLength(pv) - MantissaBits), UnitBits) :
            pv \in {p}})

\* x * y
DblMul(x, y) ==
    Val({[neg |-> xv.neg # yv.neg /\ xv.mag # <<>> /\ yv.mag # <<>>,
          mag |-> RoundProduct(BigMul(xv.mag, yv.mag))] : xv \in {x}, yv \in {y}})

\* Math.floor(x) for x >= 0
MathFloor(x) == BigToNat(BigShr(x.mag, UnitBits))

\* Math.round(x): the integer floor(x + 0.5), exactly
MathRound(x) ==
    Val({IF ~xv.neg
         THEN BigToNat(BigShr(BigAdd(xv.mag, half), UnitBits))
         ELSE IF BigCmp(xv.mag, half) <= 0 THEN 0
         ELSE -RoundHalfDown(xv.mag, half) :
            xv \in {x}, half \in {BigShl(<<1>>, UnitBits - 1)}})

----------------------------------------------------------------------------

(* Inputs: the terms a caller may hand to create *)

ValidAgreementTerms(d) ==
    [revenueSharing |-> 15, duration |-> d, minimumQuality |-> 80,
     coverageArea |-> 1000, performanceMetrics |-> <<"latency">>]

\* create requests: the terms and the number of participants (signers)
CreateAgreementSamples ==
    { [terms |-> ValidAgreementTerms(1), participants |-> 2],
      [terms |-> ValidAgreementTerms(2), participants |-> 2],
      [terms |-> ValidAgreementTerms(1), participants |-> 1],
      [terms |-> [ValidAgreementTerms(1) EXCEPT !.revenueSharing = 101], participants |-> 2],
      [terms |-> [ValidAgreementTerms(1) EXCEPT !.duration = 0], participants |-> 2],
      [terms |-> [ValidAgreementTerms(1) EXCEPT !.minimumQuality = 101], participants |-> 2],
      [terms |-> [ValidAgreementTerms(1) EXCEPT !.coverageArea = 0], participants |-> 2],
      [terms |-> [ValidAgreementTerms(1) EXCEPT !.performanceMetrics = <<>>],
       participants |-> 2] }

----------------------------------------------------------------------------
(* RoamingAgreementState and its terms *)

AgreementTerms_isValid(terms) ==
    /\ terms.revenueSharing >= 0 /\ terms.revenueSharing <= 100
    /\ terms.duration > 0
    /\ terms.minimumQuality >= 0 /\ terms.minimumQuality <= 100
    /\ terms.coverageArea > 0
    /\ Len(terms.performanceMetrics) > 0

RoamingAgreementState_isExpired_inclusive(s, t) ==
    s.creationTime + s.terms.duration * SecondsPerDay <= t

\* creationTime.plusSeconds(terms.duration * 86400).isBefore(Instant.now())
RoamingAgreementState_isExpired(s, t) ==
    s.creationTime + s.terms.duration * SecondsPerDay < t

RoamingAgreementState_isActive(s, t) ==
    s.status = "ACTIVE" /\ ~RoamingAgreementState_isExpired(s, t)

----------------------------------------------------------------------------
(* RoamingAgreementContract.verify: inputs and outputs are sequences of    *)
(* RoamingAgreementState, t the clock at verification.                     *)

RoamingAgreementContract_verifyCreate(inputs, outputs) ==
    /\ Len(inputs) = 0
    /\ Len(outputs) = 1
    /\ AgreementTerms_isValid(outputs[1].terms)
    /\ outputs[1].terms.duration > 0
    /\ outputs[1].participants >= 2

RoamingAgreementContract_verifyUpdate(inputs, outputs, t) ==
    /\ Len(inputs) = 1
    /\ Len(outputs) = 1
    /\ inputs[1].id = outputs[1].id
    /\ AgreementTerms_isValid(outputs[1].terms)
    /\ ~RoamingAgreementState_isExpired(outputs[1], t)

RoamingAgreementContract_verifyExecute(inputs, outputs, t) ==
    /\ Len(inputs) = 1
    /\ Len(outputs) = 1
    /\ inputs[1].status = "ACTIVE"
    /\ ~RoamingAgreementState_isExpired(inputs[1], t)
    /\ outputs[1].lastExecutionTime > inputs[1].lastExecutionTime

RoamingAgreementContract_verifyTerminate(inputs, outputs) ==
    /\ Len(inputs) = 1
    /\ Len(outputs) = 1
    /\ inputs[1].status = "ACTIVE"
    /\ outputs[1].status = "TERMINATED"
    /\ outputs[1].terminationTime # NullInstant

RoamingAgreementContract_verify(command, inputs, outputs, t) ==
    CASE command = "Create" -> RoamingAgreementContract_verifyCreate(inputs, outputs)
      [] command = "Update" -> RoamingAgreementContract_verifyUpdate(inputs, outputs, t)
      [] command = "Execute" -> RoamingAgreementContract_verifyExecute(inputs, outputs, t)
      [] command = "Terminate" -> RoamingAgreementContract_verifyTerminate(inputs, outputs)

----------------------------------------------------------------------------
(* The record of a flow run.  result: "OK" (FinalityFlow recorded the      *)
(* transaction), "NotFound" (no unconsumed state has the id),              *)
(* "InvalidState" (the flow's require failed), "ValidationError" (the      *)
(* contract rejected a Create), "VerificationFailed" (the contract         *)
(* rejected any other command).  inputs: the version the flow read;        *)
(* outputs: the version it proposed.                                       *)

NoTx ==
    [contract |-> "none", flow |-> "none", command |-> "none", id |-> 0,
     result |-> "none", inputs |-> <<>>, outputs |-> <<>>, time |-> 0]

FlowRun(contract, flow, command, id, result, inputs, outputs) ==
    [contract |-> contract, flow |-> flow, command |-> command, id |-> id,
     result |-> result, inputs |-> inputs, outputs |-> outputs, time |-> now]

\* FinalityFlow on a RoamingAgreementContract transaction: verify, then
\* consume the inputs and record the outputs.
FinaliseAgreementTx(flow, command, id, inputs, outputs) ==
    IF RoamingAgreementContract_verify(command, inputs, outputs, now)
    THEN /\ agreementVault' =
              (agreementVault \ {inputs[i] : i \in 1..Len(inputs)})
                  \cup {outputs[i] : i \in 1..Len(outputs)}
         /\ lastTx' = FlowRun("RoamingAgreementContract", flow, command, id,
                              "OK", inputs, outputs)
    ELSE /\ agreementVault' = agreementVault
         /\ lastTx' = FlowRun("RoamingAgreementContract", flow, command, id,
                              IF command = "Create" THEN "ValidationError"
                                                    ELSE "VerificationFailed",
                              inputs, outputs)

RejectAgreementFlow(flow, command, id, result, inputs) ==
    /\ agreementVault' = agreementVault
    /\ lastTx' = FlowRun("RoamingAgreementContract", flow, command, id, result,
                         inputs, <<>>)

----------------------------------------------------------------------------
(* The roaming agreement flows *)

NewRoamingAgreementState(terms, participants) ==
    [id |-> nextAgreementId, terms |-> terms, status |-> "PENDING",
     creationTime |-> now, lastExecutionTime |-> now,
     terminationTime |-> NullInstant, participants |-> participants]

CreateRoamingAgreementFlow(terms, participants) ==
    /\ nextAgreementId \in AgreementIdPool
    /\ LET out == NewRoamingAgreementState(terms, participants) IN
       /\ FinaliseAgreementTx("Create", "Create", out.id, <<>>, <<out>>)
       /\ nextAgreementId' =
            IF RoamingAgreementContract_verify("Create", <<>>, <<out>>, now)
            THEN nextAgreementId + 1 ELSE nextAgreementId
    /\ UNCHANGED <<now, solanaVars, clientVars, flowVars, contractVars, outsideCorda>>

ActivatedAgreementState(s) ==
    [s EXCEPT !.status = "ACTIVE", !.lastExecutionTime = now]

ActivateRoamingAgreementFlow(agreementId) ==
    /\ IF \E s \in agreementVault : s.id = agreementId
       THEN \E s \in agreementVault :
              /\ s.id = agreementId
              /\ FinaliseAgreementTx("Activate", "Update", agreementId, <<s>>,
                                     <<ActivatedAgreementState(s)>>)
       ELSE RejectAgreementFlow("Activate", "Update", agreementId, "NotFound", <<>>)
    /\ UNCHANGED <<now, solanaVars, clientVars, flowVars, nextAgreementId, contractVars, outsideCorda>>

ExecutedAgreementState(s) ==
    [s EXCEPT !.lastExecutionTime = now]

ExecuteRoamingAgreementFlow(agreementId) ==
    /\ IF \E s \in agreementVault : s.id = agreementId
       THEN \E s \in agreementVault :
              /\ s.id = agreementId
              /\ IF RoamingAgreementState_isActive(s, now)
                 THEN FinaliseAgreementTx("Execute", "Execute", agreementId, <<s>>,
                                          <<ExecutedAgreementState(s)>>)
                 ELSE RejectAgreementFlow("Execute", "Execute", agreementId,
                                          "InvalidState", <<s>>)
       ELSE RejectAgreementFlow("Execute", "Execute", agreementId, "NotFound", <<>>)
    /\ UNCHANGED <<now, solanaVars, clientVars, flowVars, nextAgreementId, contractVars, outsideCorda>>

TerminatedAgreementState_stale(s) ==
    [s EXCEPT !.status = "TERMINATED", !.terminationTime = s.lastExecutionTime]

TerminatedAgreementState(s) ==
    [s EXCEPT !.status = "TERMINATED", !.terminationTime = now]

TerminateRoamingAgreementFlow(agreementId) ==
    /\ IF \E s \in agreementVault : s.id = agreementId
       THEN \E s \in agreementVault :
              /\ s.id = agreementId
              /\ IF s.status = "ACTIVE"
                 THEN FinaliseAgreementTx("Terminate", "Terminate", agreementId, <<s>>,
                                          <<TerminatedAgreementState(s)>>)
                 ELSE RejectAgreementFlow("Terminate", "Terminate", agreementId,
                                          "InvalidState", <<s>>)
       ELSE RejectAgreementFlow("Terminate", "Terminate", agreementId, "NotFound", <<>>)
    /\ UNCHANGED <<now, solanaVars, clientVars, flowVars, nextAgreementId, contractVars, outsideCorda>>

\* QueryActiveRoamingAgreementsFlow: a read, the list it returns at `now`
QueryActiveRoamingAgreementsFlow ==
    {s \in agreementVault : s.status = "ACTIVE"}

----------------------------------------------------------------------------
(* InfrastructureContractState, its terms and network requirements *)

ContractType ==
    {"TOWER_SHARING", "FIBER_ACCESS", "SPECTRUM_SHARING", "BACKHAUL_SHARING",
     "CO_LOCATION"}

ValidServiceLevelAgreement ==
    [uptimeRequirement |-> 99, responseTimeRequirement |-> 100,
     availabilityRequirement |-> 99, penaltyClause |-> "penalty"]

ValidPaymentTerms ==
    [paymentFrequency |-> "MONTHLY", paymentMethod |-> "wire",
     currency |-> "JPY", latePaymentPenalty |-> 5]

ValidInfrastructureTerms(d) ==
    [duration |-> d, cost |-> 1000, costUnit |-> "JPY",
     performanceMetrics |-> <<"uptime">>,
     serviceLevelAgreement |-> ValidServiceLevelAgreement,
     paymentTerms |-> ValidPaymentTerms]

ValidNetworkRequirements ==
    [minimumQuality |-> 80, coverageArea |-> 1000, uptimeRequirement |-> 99,
     bandwidthRequirement |-> 100, latencyRequirement |-> 50]

\* create requests: contract type, terms, network requirements, participants
CreateContractSamples ==
    { [contractType |-> "TOWER_SHARING", terms |-> ValidInfrastructureTerms(1),
       networkRequirements |-> ValidNetworkRequirements, participants |-> 2],
      [contractType |-> "FIBER_ACCESS", terms |-> ValidInfrastructureTerms(2),
       networkRequirements |-> ValidNetworkRequirements, participants |-> 2],
      [contractType |-> "TOWER_SHARING",
       terms |-> [ValidInfrastructureTerms(1) EXCEPT !.duration = 0],
       networkRequirements |-> ValidNetworkRequirements, participants |-> 2],
      [contractType |-> "TOWER_SHARING",
       terms |-> [ValidInfrastructureTerms(1) EXCEPT
                     !.serviceLevelAgreement.uptimeRequirement = 101],
       networkRequirements |-> ValidNetworkRequirements, participants |-> 2],
      [contractType |-> "TOWER_SHARING", terms |-> ValidInfrastructureTerms(1),
       networkRequirements |-> [ValidNetworkRequirements EXCEPT !.coverageArea = 0],
       participants |-> 2],
      [contractType |-> "TOWER_SHARING", terms |-> ValidInfrastructureTerms(1),
       networkRequirements |-> ValidNetworkRequirements, participants |-> 1] }

ServiceLevelAgreement_isValid(sla) ==
    /\ sla.uptimeRequirement >= 0 /\ sla.uptimeRequirement <= 100
    /\ sla.responseTimeRequirement > 0
    /\ sla.availabilityRequirement >= 0 /\ sla.availabilityRequirement <= 100
    /\ sla.penaltyClause # ""

PaymentTerms_isValid(pt) ==
    /\ pt.paymentFrequency \in {"MONTHLY", "QUARTERLY", "ANNUALLY", "ON_DEMAND"}
    /\ pt.paymentMethod # ""
    /\ pt.currency # ""
    /\ pt.latePaymentPenalty >= 0

InfrastructureTerms_isValid(terms) ==
    /\ terms.duration > 0
    /\ terms.cost >= 0
    /\ terms.costUnit # ""
    /\ Len(terms.performanceMetrics) > 0
    /\ ServiceLevelAgreement_isValid(terms.serviceLevelAgreement)
    /\ PaymentTerms_isValid(terms.paymentTerms)

NetworkRequirements_isValid(r) ==
    /\ r.minimumQuality >= 0 /\ r.minimumQuality <= 100
    /\ r.coverageArea > 0
    /\ r.uptimeRequirement >= 0 /\ r.uptimeRequirement <= 100
    /\ r.bandwidthRequirement > 0
    /\ r.latencyRequirement > 0

InfrastructureContractState_isExpired(s, t) ==
    s.creationTime + s.terms.duration * SecondsPerDay < t

InfrastructureContractState_isActive(s, t) ==
    s.status = "ACTIVE" /\ ~InfrastructureContractState_isExpired(s, t)

----------------------------------------------------------------------------
(* InfrastructureContract.verify *)

InfrastructureContract_verifyCreate(inputs, outputs) ==
    /\ Len(inputs) = 0
    /\ Len(outputs) = 1
    /\ InfrastructureTerms_isValid(outputs[1].terms)
    /\ NetworkRequirements_isValid(outputs[1].networkRequirements)
    /\ outputs[1].participants >= 2

InfrastructureContract_verifyUpdate(inputs, outputs) ==
    /\ Len(inputs) = 1
    /\ Len(outputs) = 1
    /\ inputs[1].id = outputs[1].id
    /\ InfrastructureTerms_isValid(outputs[1].terms)
    /\ outputs[1].status = "ACTIVE"

InfrastructureContract_verifyExecute(inputs, outputs, t) ==
    /\ Len(inputs) = 1
    /\ Len(outputs) = 1
    /\ inputs[1].status = "ACTIVE"
    /\ ~InfrastructureContractState_isExpired(inputs[1], t)
    /\ outputs[1].lastExecutionTime > inputs[1].lastExecutionTime

InfrastructureContract_verifySettle(inputs, outputs) ==
    /\ Len(inputs) = 1
    /\ Len(outputs) = 1
    /\ inputs[1].status = "ACTIVE"
    /\ outputs[1].lastSettlementTime > inputs[1].lastSettlementTime

InfrastructureContract_verifyTerminate(inputs, outputs) ==
    /\ Len(inputs) = 1
    /\ Len(outputs) = 1
    /\ inputs[1].status = "ACTIVE"
    /\ outputs[1].status = "TERMINATED"
    /\ outputs[1].terminationTime # NullInstant

InfrastructureContract_verify(command, inputs, outputs, t) ==
    CASE command = "Create" -> InfrastructureContract_verifyCreate(inputs, outputs)
      [] command = "Update" -> InfrastructureContract_verifyUpdate(inputs, outputs)
      [] command = "Execute" -> InfrastructureContract_verifyExecute(inputs, outputs, t)
      [] command = "Settle" -> InfrastructureContract_verifySettle(inputs, outputs)
      [] command = "Terminate" -> InfrastructureContract_verifyTerminate(inputs, outputs)

\* FinalityFlow on an InfrastructureContract transaction
FinaliseContractTx(flow, command, id, inputs, outputs) ==
    IF InfrastructureContract_verify(command, inputs, outputs, now)
    THEN /\ contractVault' =
              (contractVault \ {inputs[i] : i \in 1..Len(inputs)})
                  \cup {outputs[i] : i \in 1..Len(outputs)}
         /\ lastTx' = FlowRun("InfrastructureContract", flow, command, id,
                              "OK", inputs, outputs)
    ELSE /\ contractVault' = contractVault
         /\ lastTx' = FlowRun("InfrastructureContract", flow, command, id,
                              IF command = "Create" THEN "ValidationError"
                                                    ELSE "VerificationFailed",
                              inputs, outputs)

\* a rejection that would nevertheless consume the version it looked up
RejectContractFlow_consumesInput(flow, command, id, result, inputs) ==
    /\ contractVault' = contractVault \ {inputs[i] : i \in 1..Len(inputs)}
    /\ lastTx' = FlowRun("InfrastructureContract", flow, command, id, result,
                         inputs, <<>>)

RejectContractFlow(flow, command, id, result, inputs) ==
    /\ contractVault' = contractVault
    /\ lastTx' = FlowRun("InfrastructureContract", flow, command, id, result,
                         inputs, <<>>)

----------------------------------------------------------------------------
(* The infrastructure contract flows *)

NewInfrastructureContractState(contractType, terms, networkRequirements, participants) ==
    [id |-> nextContractId, contractType |-> contractType, terms |-> terms,
     networkRequirements |-> networkRequirements, status |-> "PENDING",
     creationTime |-> now, lastExecutionTime |-> now, lastSettlementTime |-> now,
     terminationTime |-> NullInstant, participants |-> participants]

CreateInfrastructureContractFlow(contractType, terms, networkRequirements, participants) ==
    /\ nextContractId \in ContractIdPool
    /\ LET out == NewInfrastructureContractState(contractType, terms,
                                                 networkRequirements, participants)
           ok == InfrastructureContract_verify("Create", <<>>, <<out>>, now)
       IN
       /\ FinaliseContractTx("Create", "Create", out.id, <<>>, <<out>>)
       /\ nextContractId' = IF ok THEN nextContractId + 1 ELSE nextContractId
       /\ executionsSinceSettlement' =
            IF ok THEN [c \in DOMAIN executionsSinceSettlement \cup {out.id} |->
                          IF c = out.id THEN 0 ELSE executionsSinceSettlement[c]]
                  ELSE executionsSinceSettlement
    /\ UNCHANGED <<now, solanaVars, clientVars, flowVars, agreementVars, outsideCorda>>

ActivatedContractState(s) ==
    [s EXCEPT !.status = "ACTIVE", !.lastExecutionTime = now]

ActivateInfrastructureContractFlow(contractId) ==
    /\ IF \E s \in contractVault : s.id = contractId
       THEN \E s \in contractVault :
              /\ s.id = contractId
              /\ FinaliseContractTx("Activate", "Update", contractId, <<s>>,
                                    <<ActivatedContractState(s)>>)
       ELSE RejectContractFlow("Activate", "Update", contractId, "NotFound", <<>>)
    /\ UNCHANGED <<now, solanaVars, clientVars, flowVars, nextContractId, executionsSinceSettlement, agreementVars, outsideCorda>>

ExecutedContractState(s) ==
    [s EXCEPT !.lastExecutionTime = now]

ExecuteInfrastructureContractFlow(contractId) ==
    /\ IF \E s \in contractVault : s.id = contractId
       THEN \E s \in contractVault :
              /\ s.id = contractId
              /\ IF InfrastructureContractState_isActive(s, now)
                 THEN /\ FinaliseContractTx("Execute", "Execute", contractId, <<s>>,
                                            <<ExecutedContractState(s)>>)
                      /\ executionsSinceSettlement' =
                           IF InfrastructureContract_verify("Execute", <<s>>,
                                  <<ExecutedContractState(s)>>, now)
                           THEN [executionsSinceSettlement EXCEPT ![contractId] = @ + 1]
                           ELSE executionsSinceSettlement
                 ELSE /\ RejectContractFlow("Execute", "Execute", contractId,
                                            "InvalidState", <<s>>)
                      /\ UNCHANGED executionsSinceSettlement
       ELSE /\ RejectContractFlow("Execute", "Execute", contractId, "NotFound", <<>>)
            /\ UNCHANGED executionsSinceSettlement
    /\ UNCHANGED <<now, solanaVars, clientVars, flowVars, nextContractId, agreementVars, outsideCorda>>

SettledContractState_touchesExecution(s) ==
    [s EXCEPT !.lastSettlementTime = now, !.lastExecutionTime = now]

SettledContractState(s) ==
    [s EXCEPT !.lastSettlementTime = now]

SettleInfrastructureContractFlow(contractId) ==
    /\ IF \E s \in contractVault : s.id = contractId
       THEN \E s \in contractVault :
              /\ s.id = contractId
              /\ IF InfrastructureContractState_isActive(s, now)
                 THEN /\ FinaliseContractTx("Settle", "Settle", contractId, <<s>>,
                                            <<SettledContractState(s)>>)
                      /\ executionsSinceSettlement' =
                           IF InfrastructureContract_verify("Settle", <<s>>,
                                  <<SettledContractState(s)>>, now)
                           THEN [executionsSinceSettlement EXCEPT ![contractId] = 0]
                           ELSE executionsSinceSettlement
                 ELSE /\ RejectContractFlow("Settle", "Settle", contractId,
                                            "InvalidState", <<s>>)
                      /\ UNCHANGED executionsSinceSettlement
       ELSE /\ RejectContractFlow("Settle", "Settle", contractId, "NotFound", <<>>)
            /\ UNCHANGED executionsSinceSettlement
    /\ UNCHANGED <<now, solanaVars, clientVars, flowVars, nextContractId, agreementVars, outsideCorda>>

TerminatedContractState(s) ==
    [s EXCEPT !.status = "TERMINATED", !.terminationTime = now]

TerminateInfrastructureContractFlow(contractId) ==
    /\ IF \E s \in contractVault : s.id = contractId
       THEN \E s \in contractVault :
              /\ s.id = contractId
              /\ IF s.status = "ACTIVE"
                 THEN FinaliseContractTx("Terminate", "Terminate", contractId, <<s>>,
                                         <<TerminatedContractState(s)>>)
                 ELSE RejectContractFlow("Terminate", "Terminate", contractId,
                                         "InvalidState", <<s>>)
       ELSE RejectContractFlow("Terminate", "Terminate", contractId, "NotFound", <<>>)
    /\ UNCHANGED <<now, solanaVars, clientVars, flowVars, nextContractId, executionsSinceSettlement, agreementVars, outsideCorda>>

\* QueryActiveInfrastructureContractsFlow: a read, the list it returns
QueryActiveInfrastructureContractsFlow ==
    {s \in contractVault : s.status = "ACTIVE"}

----------------------------------------------------------------------------
(* MockCordaNetwork (TypeScript): the in-memory implementation.  An id is  *)
(* `agreement_${Date.now()}` or `contract_${Date.now()}`: the clock value  *)
(* names the record, and Map.set replaces a record of the same id.         *)

MockNetworkDataSample ==
    [averageQuality |-> 80, coverageArea |-> 1000, deviceCount |-> 10]

MockAgreementTermsSamples ==
    { ValidAgreementTerms(1),
      [ValidAgreementTerms(1) EXCEPT !.revenueSharing = 101],
      [ValidAgreementTerms(1) EXCEPT !.duration = 0] }

MockContractTermsSamples ==
    { [duration |-> 1, cost |-> 1000, costUnit |-> "JPY",
       performanceMetrics |-> <<"uptime">>],
      [duration |-> 0, cost |-> 1000, costUnit |-> "JPY",
       performanceMetrics |-> <<>>] }

MockNetworkRequirementsSample ==
    [minimumQuality |-> 80, coverageArea |-> 1000, uptimeRequirement |-> 99]

\* the ids a caller may name: the clock values of the model's days
MockIds == {d * SecondsPerDay : d \in 0..MaxDays} \cup {NullInstant}

NoCall == [method |-> "none", id |-> NullInstant, result |-> "none", terms |-> <<>>]

MockCall(method, id, result, terms) ==
    [method |-> method, id |-> id, result |-> result, terms |-> terms]

\* Map.set(id, record)
MapSet(map, id, record) ==
    [k \in DOMAIN map \cup {id} |-> IF k = id THEN record ELSE map[k]]

\* the method itself: the agreement stored under the id made of the clock value
createRoamingAgreementCall(terms, networkData) ==
    LET agreementId == now
        agreement == [id |-> agreementId, terms |-> terms,
                      networkData |-> networkData, status |-> "PENDING",
                      creationTime |-> now, lastExecutionTime |-> now]
    IN
    /\ mockRoamingAgreements' = MapSet(mockRoamingAgreements, agreementId, agreement)
    /\ mockLastCall' = MockCall("createRoamingAgreement", agreementId, "OK", terms)

createRoamingAgreement(terms, networkData) ==
    /\ createRoamingAgreementCall(terms, networkData)
    /\ UNCHANGED <<now, solanaVars, clientVars, flowVars, mockInfrastructureContracts, mockNetworkData, outsideMock>>

createInfrastructureContract(contractType, terms, networkRequirements) ==
    /\ LET contractId == now
           contract == [id |-> contractId, contractType |-> contractType,
                        terms |-> terms, networkRequirements |-> networkRequirements,
                        status |-> "PENDING", creationTime |-> now,
                        lastExecutionTime |-> now]
       IN
       /\ mockInfrastructureContracts' =
            MapSet(mockInfrastructureContracts, contractId, contract)
       /\ mockLastCall' = MockCall("createInfrastructureContract", contractId, "OK", terms)
    /\ UNCHANGED <<now, solanaVars, clientVars, flowVars, mockRoamingAgreements, mockNetworkData, outsideMock>>

executeRoamingAgreement(agreementId) ==
    /\ IF agreementId \notin DOMAIN mockRoamingAgreements
       THEN /\ mockLastCall' = MockCall("executeRoamingAgreement", agreementId,
                                        "NotFound", <<>>)
            /\ UNCHANGED mockRoamingAgreements
       ELSE IF mockRoamingAgreements[agreementId].status # "ACTIVE"
       THEN /\ mockLastCall' = MockCall("executeRoamingAgreement", agreementId,
                                        "InvalidState", <<>>)
            /\ UNCHANGED mockRoamingAgreements
       ELSE /\ mockRoamingAgreements' =
                 [mockRoamingAgreements EXCEPT ![agreementId].lastExecutionTime = now]
            /\ mockLastCall' = MockCall("executeRoamingAgreement", agreementId, "OK", <<>>)
    /\ UNCHANGED <<now, solanaVars, clientVars, flowVars, mockInfrastructureContracts, mockNetworkData, outsideMock>>

executeInfrastructureContract(contractId) ==
    /\ IF contractId \notin DOMAIN mockInfrastructureContracts
       THEN /\ mockLastCall' = MockCall("executeInfrastructureContract", contractId,
                                        "NotFound", <<>>)
            /\ UNCHANGED mockInfrastructureContracts
       ELSE IF mockInfrastructureContracts[contractId].status # "ACTIVE"
       THEN /\ mockLastCall' = MockCall("executeInfrastructureContract", contractId,
                                        "InvalidState", <<>>)
            /\ UNCHANGED mockInfrastructureContracts
       ELSE /\ mockInfrastructureContracts' =
                 [mockInfrastructureContracts EXCEPT ![contractId].lastExecutionTime = now]
            /\ mockLastCall' = MockCall("executeInfrastructureContract", contractId,
                                        "OK", <<>>)
    /\ UNCHANGED <<now, solanaVars, clientVars, flowVars, mockRoamingAgreements, mockNetworkData, outsideMock>>

\* getActiveAgreements: a read, the two lists it returns
getActiveAgreements ==
    [roamingAgreements |->
        {mockRoamingAgreements[id] : id \in
            {k \in DOMAIN mockRoamingAgreements :
                mockRoamingAgreements[k].status = "ACTIVE"}},
     infrastructureContracts |->
        {mockInfrastructureContracts[id] : id \in
            {k \in DOMAIN mockInfrastructureContracts :
                mockInfrastructureContracts[k].status = "ACTIVE"}}]

\* reset(): the list and both maps cleared
reset ==
    /\ mockNetworkData' = <<>>
    /\ mockRoamingAgreements' = [id \in {} |-> NoTx]
    /\ mockInfrastructureContracts' = [id \in {} |-> NoTx]
    /\ mockLastCall' = MockCall("reset", NullInstant, "OK", <<>>)
    /\ UNCHANGED <<now, solanaVars, clientVars, flowVars, outsideMock>>

----------------------------------------------------------------------------
(* The settlement calculations.  Money is an integer number of hundredths *)
(* of the currency unit where the code multiplies by a rate with two      *)
(* decimals (pct / 100.0, usage * 0.05, ...).                             *)

\* UsageData(dataUsage, costPerMB)
UsageSamples ==
    { [dataUsage |-> 10, costPerMB |-> 2], [dataUsage |-> 0, costPerMB |-> 2] }

\* InfrastructureUsageData
InfrastructureUsageSamples ==
    { [towerUsage |-> 10, fiberUsage |-> 20, spectrumUsage |-> 5,
       backhaulUsage |-> 4, coLocationUsage |-> 50],
      [towerUsage |-> 0, fiberUsage |-> 0, spectrumUsage |-> 0,
       backhaulUsage |-> 0, coLocationUsage |-> 0] }

NoCalc ==
    [impl |-> "none", flow |-> "none", id |-> 0, result |-> "none",
     record |-> <<>>, usage |-> <<>>, value |-> <<>>]

CalcRun(impl, flow, id, result, record, usage, value) ==
    [impl |-> impl, flow |-> flow, id |-> id, result |-> result,
     record |-> record, usage |-> usage, value |-> value]

\* a result whose money also moves with the clock
RevenueSharingResult_clocked(agreementState, usageData, t) ==
    LET totalRevenue == usageData.dataUsage * usageData.costPerMB + t IN
    [agreementId |-> agreementState.id,
     totalRevenue |-> totalRevenue,
     sharedRevenue |-> totalRevenue * agreementState.terms.revenueSharing,
     revenueSharingPercentage |-> agreementState.terms.revenueSharing,
     calculationDate |-> t]

\* sharedRevenue in hundredths: totalRevenue * (revenueSharingPercentage / 100.0)
RevenueSharingResult(agreementState, usageData, t) ==
    LET totalRevenue == usageData.dataUsage * usageData.costPerMB IN
    [agreementId |-> agreementState.id,
     totalRevenue |-> totalRevenue,
     sharedRevenue |-> totalRevenue * agreementState.terms.revenueSharing,
     revenueSharingPercentage |-> agreementState.terms.revenueSharing,
     calculationDate |-> t]

CalculateRevenueSharingFlow(agreementId, usageData) ==
    /\ IF \E s \in agreementVault : s.id = agreementId
       THEN \E s \in agreementVault :
              /\ s.id = agreementId
              /\ lastCalc' = CalcRun("corda", "CalculateRevenueSharing", agreementId,
                                     "OK", s, usageData,
                                     RevenueSharingResult(s, usageData, now))
       ELSE lastCalc' = CalcRun("corda", "CalculateRevenueSharing", agreementId,
                                "NotFound", <<>>, usageData, <<>>)
    /\ UNCHANGED <<now, solanaVars, clientVars, flowVars, agreementVars, contractVars, lastTx, mockStores, mockNetworkData,
                   mockLastCall, bridgeVars, networkDataVars>>

\* in hundredths: usage * rate
calculateUsageCost(contract, usage) ==
    CASE contract.contractType = "TOWER_SHARING" -> usage.towerUsage * 10
      [] contract.contractType = "FIBER_ACCESS" -> usage.fiberUsage * 5
      [] contract.contractType = "SPECTRUM_SHARING" -> usage.spectrumUsage * 20
      [] contract.contractType = "BACKHAUL_SHARING" -> usage.backhaulUsage * 15
      [] contract.contractType = "CO_LOCATION" -> usage.coLocationUsage * 8

\* baseCost, usageCost and totalCost in hundredths
InfrastructureCostResult(contractState, usageData, t) ==
    LET baseCost == contractState.terms.cost * 100
        usageCost == calculateUsageCost(contractState, usageData)
    IN [contractId |-> contractState.id, baseCost |-> baseCost,
        usageCost |-> usageCost, totalCost |-> baseCost + usageCost,
        currency |-> contractState.terms.costUnit, calculationDate |-> t]

CalculateInfrastructureCostsFlow(contractId, usageData) ==
    /\ IF \E s \in contractVault : s.id = contractId
       THEN \E s \in contractVault :
              /\ s.id = contractId
              /\ lastCalc' = CalcRun("corda", "CalculateInfrastructureCosts", contractId,
                                     "OK", s, usageData,
                                     InfrastructureCostResult(s, usageData, now))
       ELSE lastCalc' = CalcRun("corda", "CalculateInfrastructureCosts", contractId,
                                "NotFound", <<>>, usageData, <<>>)
    /\ UNCHANGED <<now, solanaVars, clientVars, flowVars, agreementVars, contractVars, lastTx, mockStores, mockNetworkData,
                   mockLastCall, bridgeVars, networkDataVars>>

\* MockCordaNetwork.calculateRevenueSharing; sharedRevenue in hundredths
calculateRevenueSharing(agreementId, usageData) ==
    /\ IF agreementId \in DOMAIN mockRoamingAgreements
       THEN LET agreement == mockRoamingAgreements[agreementId]
                totalRevenue == usageData.dataUsage * usageData.costPerMB
            IN lastCalc' = CalcRun("mock", "CalculateRevenueSharing", agreementId,
                                   "OK", agreement, usageData,
                                   [totalRevenue |-> totalRevenue,
                                    sharedRevenue |->
                                        totalRevenue * agreement.terms.revenueSharing,
                                    revenueSharingPercentage |->
                                        agreement.terms.revenueSharing])
       ELSE lastCalc' = CalcRun("mock", "CalculateRevenueSharing", agreementId,
                                "NotFound", <<>>, usageData, <<>>)
    /\ UNCHANGED <<now, solanaVars, clientVars, flowVars, agreementVars, contractVars, lastTx, mockStores, mockNetworkData,
                   mockLastCall, bridgeVars, networkDataVars>>

----------------------------------------------------------------------------

(* CordaBridge (TypeScript): aggregation and anonymization of the         *)
(* DataSubmission records of the public layer.  A list of submissions is  *)
(* a sequence, in the order the query returned it.                        *)

\* reduce((sum, sub) => sum + f(sub), 0)
RECURSIVE DblSum(_, _, _)
DblSum(submissions, field, i) ==
    IF i = 0 THEN DblZero
    ELSE DblAdd(DblSum(submissions, field, i - 1), submissions[i][field])

RECURSIVE DblSumLocation(_, _, _)
DblSumLocation(submissions, coordinate, i) ==
    IF i = 0 THEN DblZero
    ELSE DblAdd(DblSumLocation(submissions, coordinate, i - 1),
                submissions[i].location[coordinate])

\* Earth's radius R, 6371000 meters, is EarthRadiusKm * 1000
EarthRadiusKm == 6371

\* R * c of the haversine formula for two points on one meridian, where
\* c = |lat2 - lat1| * PI / 180 (PI as 355 / 113); the submissions drawn
\* below share one longitude
calculateDistance(lat1, lng1, lat2, lng2) ==
    LET dLat == DblAdd(lat2, [lat1 EXCEPT !.neg = ~lat1.neg])
        degrees == [dLat EXCEPT !.neg = FALSE]
    IN DblDivInt(DblDivInt(
         DblMulInt(DblMulInt(DblMulInt(degrees, EarthRadiusKm), 1000), 355), 113), 180)

RECURSIVE MaxDistance(_, _, _, _)
MaxDistance(submissions, centerLat, centerLng, i) ==
    IF i = 0 THEN DblZero
    ELSE Val({IF DblLess(rest, distance) THEN distance ELSE rest :
                 rest \in {MaxDistance(submissions, centerLat, centerLng, i - 1)},
                 distance \in {calculateDistance(centerLat, centerLng,
                                                 submissions[i].location.latitude,
                                                 submissions[i].location.longitude)}})

calculateRadius(submissions) ==
    IF Len(submissions) <= 1 THEN DblZero
    ELSE Val({DblFromInt(MathRound(MaxDistance(submissions, centerLat, centerLng,
                                               Len(submissions)))) :
                 centerLat \in {DblDivInt(DblSumLocation(submissions, "latitude",
                                                         Len(submissions)),
                                          Len(submissions))},
                 centerLng \in {DblDivInt(DblSumLocation(submissions, "longitude",
                                                         Len(submissions)),
                                          Len(submissions))}})

processDataSubmissions(submissions, t) ==
    IF Len(submissions) = 0
    THEN [region |-> [latitude |-> DblZero, longitude |-> DblZero, radius |-> DblZero],
          averageSignalStrength |-> DblZero, averageLatency |-> DblZero,
          averageThroughput |-> DblZero, averageAvailability |-> DblZero,
          deviceCount |-> 0, dataPoints |-> 0, timestamp |-> t]
    ELSE LET n == Len(submissions) IN
         [region |-> [latitude |-> DblDivInt(DblSumLocation(submissions, "latitude", n), n),
                      longitude |-> DblDivInt(DblSumLocation(submissions, "longitude", n), n),
                      radius |-> calculateRadius(submissions)],
          averageSignalStrength |-> DblDivInt(DblSum(submissions, "signalStrength", n), n),
          averageLatency |-> DblDivInt(DblSum(submissions, "latency", n), n),
          averageThroughput |-> DblDivInt(DblSum(submissions, "throughput", n), n),
          averageAvailability |-> DblDivInt(DblSum(submissions, "availability", n), n),
          deviceCount |-> Cardinality({submissions[i].device : i \in 1..n}),
          dataPoints |-> n, timestamp |-> t]

\* Math.round(x * 100) / 100
RoundTo2Decimals(x) == DblDivInt(DblFromInt(MathRound(DblMulInt(x, 100))), 100)

\* Math.round(x)
RoundToInteger(x) == DblFromInt(MathRound(x))

anonymizeData(data) ==
    Val({[d EXCEPT
            !.region = [latitude |-> RoundTo2Decimals(d.region.latitude),
                        longitude |-> RoundTo2Decimals(d.region.longitude),
                        radius |-> RoundToInteger(d.region.radius)],
            !.averageSignalStrength = RoundToInteger(d.averageSignalStrength),
            !.averageLatency = RoundToInteger(d.averageLatency),
            !.averageThroughput = RoundToInteger(d.averageThroughput),
            !.averageAvailability = RoundTo2Decimals(d.averageAvailability)] :
         d \in {data}})

\* the query of the DataSubmission accounts is not implemented: it returns
\* an empty list whatever the accounts, the time range and the region
getDataSubmissions(accounts, timeRange) == <<>>

aggregateNetworkData(accounts, timeRange, t) ==
    anonymizeData(processDataSubmissions(getDataSubmissions(accounts, timeRange), t))

----------------------------------------------------------------------------

(* The public layer's ingestion and CordaBridge's scheduled migration.    *)
(* The timer callback of setupAutomatedMigration is an async function: it *)
(* is suspended at each await, and the timer can fire again meanwhile.    *)

Devices == {"device-1", "device-2"}

\* qualityData of submitData: availability 0.261, 0.861, 0.033; two
\* latitudes on one meridian
QualityDataSamples ==
    { [signalStrength |-> DblFromInt(-70), latency |-> DblFromInt(20),
       throughput |-> DblFromInt(5000), availability |-> DblFromRatio(261, 1000),
       location |-> [latitude |-> DblFromRatio(3568, 100),
                     longitude |-> DblFromRatio(13976, 100), accuracy |-> DblFromInt(10)]],
      [signalStrength |-> DblFromInt(-75), latency |-> DblFromInt(25),
       throughput |-> DblFromInt(4000), availability |-> DblFromRatio(861, 1000),
       location |-> [latitude |-> DblFromRatio(3570, 100),
                     longitude |-> DblFromRatio(13976, 100), accuracy |-> DblFromInt(10)]],
      [signalStrength |-> DblFromInt(-70), latency |-> DblFromInt(30),
       throughput |-> DblFromInt(5000), availability |-> DblFromRatio(33, 1000),
       location |-> [latitude |-> DblFromRatio(3568, 100),
                     longitude |-> DblFromRatio(13976, 100), accuracy |-> DblFromInt(10)]] }

\* what the scheduler's runs are fed with: their content is not read
TypicalQualityData ==
    CHOOSE q \in QualityDataSamples : q.latency = DblFromInt(20)

\* the scheduler runs every 24 hours (the default of intervalHours)
IntervalHoursSamples == {24}

\* at most this many timers are set up, and callbacks suspended at a time
MaxTimers == 1
MaxRunsInFlight == 2

DataSubmission(deviceId, qualityData, t) ==
    [device |-> deviceId, timestamp |-> t,
     signalStrength |-> qualityData.signalStrength, latency |-> qualityData.latency,
     throughput |-> qualityData.throughput, availability |-> qualityData.availability,
     location |-> qualityData.location]

\* DePINfinityClient.submitData: the program creates the dataSubmission
\* account at the address derived from the device and Date.now()
submitData(deviceId, qualityData) ==
    /\ ~\E sub \in dataSubmissions : sub.device = deviceId /\ sub.timestamp = now
    /\ dataSubmissions' = dataSubmissions \cup {DataSubmission(deviceId, qualityData, now)}
    /\ UNCHANGED <<now, solanaVars, clientVars, flowVars, agreementVars, contractVars, lastTx, mockStores, mockNetworkData,
                   mockLastCall, settlementVars, migrationTimers, migrationRuns,
                   finishedRuns, cordaNetworkData, networkDataVars>>

\* setInterval(callback, migrationInterval)
setupAutomatedMigration(intervalHours) ==
    /\ Len(migrationTimers) < MaxTimers
    /\ migrationTimers' = Append(migrationTimers,
                                 [intervalHours |-> intervalHours,
                                  due |-> now + intervalHours * 60 * 60])
    /\ UNCHANGED <<now, solanaVars, clientVars, flowVars, agreementVars, contractVars, lastTx, mockStores, mockNetworkData,
                   mockLastCall, settlementVars, dataSubmissions, migrationRuns,
                   finishedRuns, cordaNetworkData, networkDataVars>>

\* The timer fires, on time or late: the callback computes its window from
\* the clock and is suspended at `await this.aggregateNetworkData(...)`.
AutomatedMigrationFires(i) ==
    /\ i \in 1..Len(migrationTimers)
    /\ now >= migrationTimers[i].due
    /\ Cardinality(migrationRuns) < MaxRunsInFlight
    /\ LET intervalHours == migrationTimers[i].intervalHours
           endTime == now
           startTime == endTime - intervalHours * 60 * 60
       IN /\ migrationRuns' = migrationRuns \cup
                 {[run |-> Cardinality(migrationRuns) + Cardinality(finishedRuns) + 1,
                   startTime |-> startTime, endTime |-> endTime,
                   awaiting |-> "aggregateNetworkData", submissions |-> {},
                   aggregatedData |-> <<>>]}
          /\ migrationTimers' = [migrationTimers EXCEPT
                                    ![i].due = now + intervalHours * 60 * 60]
    /\ UNCHANGED <<now, solanaVars, clientVars, flowVars, agreementVars, contractVars, lastTx, mockStores, mockNetworkData,
                   mockLastCall, settlementVars, dataSubmissions, finishedRuns,
                   cordaNetworkData, networkDataVars>>

FinishedRun(r, submissions, outcome) ==
    [run |-> r.run, startTime |-> r.startTime, endTime |-> r.endTime,
     submissions |-> submissions, outcome |-> outcome]

\* migrateToCorda's body of POST /api/v1/network-data
cordaPayload(aggregatedData, t) ==
    [dataType |-> "network_quality", timestamp |-> t, region |-> aggregatedData.region,
     metrics |-> [averageSignalStrength |-> aggregatedData.averageSignalStrength,
                  averageLatency |-> aggregatedData.averageLatency,
                  averageThroughput |-> aggregatedData.averageThroughput,
                  averageAvailability |-> aggregatedData.averageAvailability,
                  deviceCount |-> aggregatedData.deviceCount,
                  dataPoints |-> aggregatedData.dataPoints]]

\* A suspended callback resumes: after aggregateNetworkData it migrates if
\* dataPoints > 0 and otherwise returns; after migrateToCorda's fetch (the
\* response is ok or not) it returns.
AutomatedMigrationResumes(r, responseOk) ==
    /\ r \in migrationRuns
    /\ IF r.awaiting = "aggregateNetworkData"
       THEN LET timeRange == [start |-> r.startTime, end |-> r.endTime]
                submissions == getDataSubmissions(dataSubmissions, timeRange)
                aggregatedData == aggregateNetworkData(dataSubmissions, timeRange, now)
            IN IF aggregatedData.dataPoints > 0
               THEN /\ migrationRuns' = (migrationRuns \ {r}) \cup
                          {[r EXCEPT !.awaiting = "migrateToCorda",
                                     !.submissions =
                                         {submissions[k] : k \in 1..Len(submissions)},
                                     !.aggregatedData = aggregatedData]}
                    /\ UNCHANGED <<finishedRuns, cordaNetworkData>>
               ELSE /\ migrationRuns' = migrationRuns \ {r}
                    /\ finishedRuns' = finishedRuns \cup
                          {FinishedRun(r, {submissions[k] : k \in 1..Len(submissions)},
                                       "NoData")}
                    /\ UNCHANGED cordaNetworkData
       ELSE /\ migrationRuns' = migrationRuns \ {r}
            /\ finishedRuns' = finishedRuns \cup
                  {FinishedRun(r, r.submissions,
                               IF responseOk THEN "Migrated" ELSE "Failed")}
            /\ cordaNetworkData' =
                  IF responseOk
                  THEN Append(cordaNetworkData, cordaPayload(r.aggregatedData, now))
                  ELSE cordaNetworkData
    /\ UNCHANGED <<now, solanaVars, clientVars, flowVars, agreementVars, contractVars, lastTx, mockStores, mockNetworkData,
                   mockLastCall, settlementVars, dataSubmissions, migrationTimers,
                   networkDataVars>>

\* no flow that returns a result object has run
NoResult == [flow |-> "none", result |-> "none", input |-> <<>>, value |-> <<>>]

----------------------------------------------------------------------------

(* MockCordaNetwork (TypeScript and web demo): migration of a batch of    *)
(* public-layer data points into the list networkData                     *)

\* a data point of solanaData: the quality data with the device's id
SolanaData(deviceId, qualityData) ==
    [deviceId |-> deviceId, signalStrength |-> qualityData.signalStrength,
     latency |-> qualityData.latency, throughput |-> qualityData.throughput,
     availability |-> qualityData.availability]

\* solanaData of migrateNetworkDataFromSolana: no data point, one, and
\* three of two devices
SolanaDataBatches ==
    LET point(latency, deviceId) ==
            SolanaData(deviceId, CHOOSE q \in QualityDataSamples :
                                    q.latency = DblFromInt(latency))
    IN { <<>>, <<point(20, "device-1")>>,
         <<point(20, "device-1"), point(30, "device-2"), point(25, "device-1")>> }

MockRegions == {"Tokyo", "Osaka"}

\* at most this many aggregates are kept in the list
MaxMockNetworkData == 2

MockCordaNetwork_aggregateMetrics(solanaData) ==
    IF Len(solanaData) = 0
    THEN [averageSignalStrength |-> DblZero, averageLatency |-> DblZero,
          averageThroughput |-> DblZero, averageAvailability |-> DblZero,
          deviceCount |-> 0, dataPoints |-> 0]
    ELSE [averageSignalStrength |->
              DblDivInt(DblSum(solanaData, "signalStrength", Len(solanaData)),
                        Len(solanaData)),
          averageLatency |->
              DblDivInt(DblSum(solanaData, "latency", Len(solanaData)), Len(solanaData)),
          averageThroughput |->
              DblDivInt(DblSum(solanaData, "throughput", Len(solanaData)),
                        Len(solanaData)),
          averageAvailability |->
              DblDivInt(DblSum(solanaData, "availability", Len(solanaData)),
                        Len(solanaData)),
          deviceCount |-> Cardinality({solanaData[i].deviceId : i \in DOMAIN solanaData}),
          dataPoints |-> Len(solanaData)]

migrateNetworkDataFromSolana(solanaData, region) ==
    /\ Len(mockNetworkData) < MaxMockNetworkData
    /\ mockNetworkData' =
          Append(mockNetworkData,
                 [region |-> region,
                  metrics |-> MockCordaNetwork_aggregateMetrics(solanaData),
                  timestamp |-> now])
    /\ mockLastCall' = MockCall("migrateNetworkDataFromSolana", NullInstant, "OK", <<>>)
    /\ UNCHANGED <<now, solanaVars, clientVars, flowVars, mockStores, outsideMock>>

----------------------------------------------------------------------------

(* The network data of the permissioned layer (Kotlin): NetworkDataState  *)
(* records in the vault, NetworkDataContract, the flows that create and   *)
(* roll up records, and the migration flows of SolanaCordaBridge.         *)

\* 0.0 / 0: not a number, which no comparison holds of
NaN == [neg |-> FALSE, mag |-> <<-1>>]

\* x in lo..hi (a ClosedFloatingPointRange) and x >= lo
DblInRange(x, lo, hi) == x # NaN /\ DblLeq(lo, x) /\ DblLeq(x, hi)
DblAtLeast(x, lo) == x # NaN /\ DblLeq(lo, x)

\* Instant.EPOCH lies before the clock's day 0
EPOCH == -SecondsPerDay

NetworkRegion(latitude, longitude, radius, country, city) ==
    [latitude |-> latitude, longitude |-> longitude, radius |-> radius,
     country |-> country, city |-> city]

NetworkRegion_isValid(region) ==
    /\ DblInRange(region.latitude, DblFromInt(-90), DblFromInt(90))
    /\ DblInRange(region.longitude, DblFromInt(-180), DblFromInt(180))
    /\ DblAtLeast(region.radius, DblZero)
    /\ region.country # ""
    /\ region.city # ""

NetworkMetrics_isValid(metrics) ==
    /\ DblInRange(metrics.averageSignalStrength, DblFromInt(-120), DblZero)
    /\ DblAtLeast(metrics.averageLatency, DblZero)
    /\ DblAtLeast(metrics.averageThroughput, DblZero)
    /\ DblInRange(metrics.averageAvailability, DblZero, DblFromInt(1))
    /\ metrics.deviceCount >= 0
    /\ metrics.dataPoints >= 0
    /\ DblInRange(metrics.qualityScore, DblZero, DblFromInt(1))

NetworkDataState(id, region, metrics, timestamp, source) ==
    [id |-> id, region |-> region, metrics |-> metrics, timestamp |-> timestamp,
     source |-> source]

NetworkDataContract_verifyCreate(inputs, outputs) ==
    /\ Len(inputs) = 0
    /\ Len(outputs) = 1
    /\ NetworkMetrics_isValid(outputs[1].metrics)
    /\ NetworkRegion_isValid(outputs[1].region)
    /\ outputs[1].timestamp > EPOCH

NetworkDataContract_verifyAggregate(inputs, outputs) ==
    /\ Len(inputs) > 1
    /\ Len(outputs) = 1
    /\ Cardinality({inputs[i].region : i \in DOMAIN inputs}) = 1
    /\ NetworkMetrics_isValid(outputs[1].metrics)
    /\ NetworkRegion_isValid(outputs[1].region)

(* Inputs *)

Tokyo ==
    NetworkRegion(DblFromRatio(3568, 100), DblFromRatio(13976, 100), DblFromInt(1000),
                  "Japan", "Tokyo")
Osaka ==
    NetworkRegion(DblFromRatio(3469, 100), DblFromRatio(13550, 100), DblFromInt(1000),
                  "Japan", "Osaka")

NetworkMetrics(signal, latency, throughput, availability, deviceCount, dataPoints,
               qualityScore) ==
    [averageSignalStrength |-> signal, averageLatency |-> latency,
     averageThroughput |-> throughput, averageAvailability |-> availability,
     deviceCount |-> deviceCount, dataPoints |-> dataPoints,
     qualityScore |-> qualityScore]

\* rounded metrics of three data points, metrics of no data point, raw means
\* of one data point, and an availability above 1
RoundedMetrics ==
    NetworkMetrics(DblFromInt(-70), DblFromInt(20), DblFromInt(5000),
                   DblFromRatio(95, 100), 2, 3, DblFromRatio(3, 4))
EmptyMetrics ==
    NetworkMetrics(DblFromInt(-70), DblFromInt(20), DblFromInt(5000),
                   DblFromRatio(95, 100), 0, 0, DblFromRatio(3, 4))
RawMetrics ==
    NetworkMetrics(DblFromRatio(-143, 2), DblFromRatio(61, 2), DblFromInt(4000),
                   DblFromRatio(861, 1000), 1, 1, DblFromRatio(1, 2))
InvalidMetrics ==
    NetworkMetrics(DblFromInt(-70), DblFromInt(20), DblFromInt(5000),
                   DblFromRatio(3, 2), 1, 1, DblFromRatio(1, 2))

CreateNetworkDataSamples ==
    { [region |-> Tokyo, metrics |-> RoundedMetrics],
      [region |-> Tokyo, metrics |-> EmptyMetrics],
      [region |-> Osaka, metrics |-> RawMetrics],
      [region |-> Osaka, metrics |-> InvalidMetrics] }

\* UniqueIdentifier(): the ids the flows can hand out are 1..MaxNetworkDataIds
MaxNetworkDataIds == 3

\* networkDataIds of AggregateNetworkDataFlow
NetworkDataIdLists ==
    { <<1>>, <<1, 2>>, <<2, 1>>, <<2, 3>>, <<1, 2, 3>>, <<1, MaxNetworkDataIds + 2>> }

FlowResult(flow, result, input, value) ==
    [flow |-> flow, result |-> result, input |-> input, value |-> value]

(* CreateNetworkDataFlow *)

CreateNetworkDataFlow(region, metrics) ==
    /\ nextNetworkDataId <= MaxNetworkDataIds
    /\ LET networkDataState ==
               NetworkDataState(nextNetworkDataId, region, metrics, now, "solana_depin")
       IN IF NetworkDataContract_verifyCreate(<<>>, <<networkDataState>>)
          THEN /\ networkDataVault' = networkDataVault \cup {networkDataState}
               /\ lastFlowResult' = FlowResult("CreateNetworkDataFlow", "OK", <<>>,
                                               networkDataState)
          ELSE /\ networkDataVault' = networkDataVault
               /\ lastFlowResult' = FlowResult("CreateNetworkDataFlow",
                                               "VerificationFailed", <<>>, <<>>)
    /\ nextNetworkDataId' = nextNetworkDataId + 1
    /\ UNCHANGED <<now, solanaVars, clientVars, flowVars, agreementVars, contractVars, lastTx, mockStores, mockNetworkData,
                   mockLastCall, settlementVars, bridgeVars>>

(* The roll-up of existing records *)

\* x / totalDataPoints
DblDivCount(x, n) == IF n = 0 THEN NaN ELSE DblDivInt(x, n)

RECURSIVE SumBy(_, _, _)
SumBy(metricsList, field, i) ==
    IF i = 0 THEN 0 ELSE SumBy(metricsList, field, i - 1) + metricsList[i][field]

\* metricsList.map { it.field * it.dataPoints }.sum() / totalDataPoints
Weighted(metricsList, field, totalDataPoints) ==
    DblDivCount(DblSum([i \in DOMAIN metricsList |->
                           [product |-> DblMulInt(metricsList[i][field],
                                                  metricsList[i].dataPoints)]],
                       "product", Len(metricsList)),
                totalDataPoints)

aggregateMetrics(metricsList) ==
    Val({NetworkMetrics(Weighted(metricsList, "averageSignalStrength", totalDataPoints),
                        Weighted(metricsList, "averageLatency", totalDataPoints),
                        Weighted(metricsList, "averageThroughput", totalDataPoints),
                        Weighted(metricsList, "averageAvailability", totalDataPoints),
                        SumBy(metricsList, "deviceCount", Len(metricsList)),
                        totalDataPoints,
                        Weighted(metricsList, "qualityScore", totalDataPoints)) :
            totalDataPoints \in {SumBy(metricsList, "dataPoints", Len(metricsList))}})

\* the record of the vault with this id
NetworkDataWithId(id) == CHOOSE s \in networkDataVault : s.id = id

AggregateNetworkDataFlow(networkDataIds) ==
    /\ nextNetworkDataId <= MaxNetworkDataIds + 1
    /\ IF \E i \in DOMAIN networkDataIds :
             ~\E s \in networkDataVault : s.id = networkDataIds[i]
       THEN /\ lastFlowResult' = FlowResult("AggregateNetworkDataFlow", "NotFound",
                                            networkDataIds, <<>>)
            /\ UNCHANGED <<networkDataVault, nextNetworkDataId>>
       ELSE LET networkDataStates ==
                    [i \in DOMAIN networkDataIds |-> NetworkDataWithId(networkDataIds[i])]
                aggregatedState ==
                    NetworkDataState(
                        nextNetworkDataId, networkDataStates[1].region,
                        aggregateMetrics([i \in DOMAIN networkDataStates |->
                                             networkDataStates[i].metrics]),
                        now, "solana_depin_aggregated")
            IN /\ nextNetworkDataId' = nextNetworkDataId + 1
               /\ IF NetworkDataContract_verifyAggregate(networkDataStates,
                                                         <<aggregatedState>>)
                  THEN /\ networkDataVault' =
                             (networkDataVault \
                                 {networkDataStates[i] : i \in DOMAIN networkDataStates})
                             \cup {aggregatedState}
                       /\ lastFlowResult' = FlowResult("AggregateNetworkDataFlow", "OK",
                                                       networkDataStates, aggregatedState)
                  ELSE /\ networkDataVault' = networkDataVault
                       /\ lastFlowResult' = FlowResult("AggregateNetworkDataFlow",
                                                       "VerificationFailed",
                                                       networkDataStates, <<>>)
    /\ UNCHANGED <<now, solanaVars, clientVars, flowVars, agreementVars, contractVars, lastTx, mockStores, mockNetworkData,
                   mockLastCall, settlementVars, bridgeVars>>

----------------------------------------------------------------------------

(* NetworkDataService.CreateNetworkDataFromSolana and the flows of        *)
(* SolanaCordaBridge                                                      *)

normalizeSignalStrength(signalStrength) ==
    IF DblLeq(DblFromInt(-50), signalStrength) THEN DblFromInt(1)
    ELSE IF DblLeq(DblFromInt(-60), signalStrength) THEN DblFromRatio(9, 10)
    ELSE IF DblLeq(DblFromInt(-70), signalStrength) THEN DblFromRatio(8, 10)
    ELSE IF DblLeq(DblFromInt(-80), signalStrength) THEN DblFromRatio(6, 10)
    ELSE IF DblLeq(DblFromInt(-90), signalStrength) THEN DblFromRatio(4, 10)
    ELSE DblFromRatio(2, 10)

normalizeLatency(latency) ==
    IF DblLeq(latency, DblFromInt(20)) THEN DblFromInt(1)
    ELSE IF DblLeq(latency, DblFromInt(50)) THEN DblFromRatio(9, 10)
    ELSE IF DblLeq(latency, DblFromInt(100)) THEN DblFromRatio(8, 10)
    ELSE IF DblLeq(latency, DblFromInt(200)) THEN DblFromRatio(6, 10)
    ELSE IF DblLeq(latency, DblFromInt(500)) THEN DblFromRatio(4, 10)
    ELSE DblFromRatio(2, 10)

\* the thresholds are 1000000, 500000, 100000 and 50000
normalizeThroughput(throughput) ==
    IF DblLeq(DblMulInt(DblFromInt(1000), 1000), throughput) THEN DblFromInt(1)
    ELSE IF DblLeq(DblMulInt(DblFromInt(500), 1000), throughput) THEN DblFromRatio(8, 10)
    ELSE IF DblLeq(DblMulInt(DblFromInt(100), 1000), throughput) THEN DblFromRatio(6, 10)
    ELSE IF DblLeq(DblMulInt(DblFromInt(50), 1000), throughput) THEN DblFromRatio(4, 10)
    ELSE DblFromRatio(2, 10)

calculateQualityScore(metrics) ==
    DblDivInt(DblAdd(DblAdd(DblAdd(normalizeSignalStrength(metrics.averageSignalStrength),
                                   normalizeLatency(metrics.averageLatency)),
                            normalizeThroughput(metrics.averageThroughput)),
                     metrics.averageAvailability), 4)

\* the NetworkDataState the flow returns: it builds no transaction
CreateNetworkDataFromSolana(solanaData, id, t) ==
    NetworkDataState(id, solanaData.region,
                     [solanaData.metrics EXCEPT
                         !.qualityScore = calculateQualityScore(solanaData.metrics)],
                     t, "solana_depin")

\* SolanaNetworkData(region, metrics, timestamp)
SolanaNetworkDataSamples ==
    { [region |-> Tokyo, metrics |-> RawMetrics, timestamp |-> 0],
      [region |-> Osaka, metrics |-> RoundedMetrics, timestamp |-> SecondsPerDay] }

\* solanaData of MigrateNetworkDataFromSolana: at most MaxBatch items
MaxBatch == 2
SolanaNetworkDataBatches ==
    UNION {[1..n -> SolanaNetworkDataSamples] : n \in 0..MaxBatch}

\* The loop of MigrateNetworkDataFromSolana from item i on: the results of
\* the items, each a success with the id of the state its subflow returned
\* or, if the subflow threw (the items of thrown), a failure.
RECURSIVE MigrateItems_stopsAtFailure(_, _, _, _)
MigrateItems_stopsAtFailure(solanaData, thrown, i, id) ==
    IF i > Len(solanaData) \/ i \in thrown THEN <<>>
    ELSE <<[solanaDataId |-> solanaData[i].timestamp, cordaDataId |-> id,
            success |-> TRUE]>>
         \o MigrateItems_stopsAtFailure(solanaData, thrown, i + 1, id + 1)

RECURSIVE MigrateItems(_, _, _, _)
MigrateItems(solanaData, thrown, i, id) ==
    IF i > Len(solanaData) THEN <<>>
    ELSE IF i \in thrown
    THEN <<[solanaDataId |-> solanaData[i].timestamp, cordaDataId |-> 0,
            success |-> FALSE]>>
         \o MigrateItems(solanaData, thrown, i + 1, id)
    ELSE <<[solanaDataId |-> solanaData[i].timestamp,
            cordaDataId |-> CreateNetworkDataFromSolana(solanaData[i], id, now).id,
            success |-> TRUE]>>
         \o MigrateItems(solanaData, thrown, i + 1, id + 1)

MigrationResult(solanaData, migrationResults, t) ==
    [totalDataPoints |-> Len(solanaData),
     successCount |-> Cardinality({i \in DOMAIN migrationResults :
                                      migrationResults[i].success}),
     failureCount |-> Cardinality({i \in DOMAIN migrationResults :
                                      ~migrationResults[i].success}),
     migrationResults |-> migrationResults, timestamp |-> t]

\* thrown: the items whose subflow throws an Exception
MigrateNetworkDataFromSolana(solanaData, thrown) ==
    /\ thrown \subseteq DOMAIN solanaData
    /\ nextNetworkDataId + Len(solanaData) <= MaxNetworkDataIds + 1
    /\ LET migrationResults == MigrateItems(solanaData, thrown, 1, nextNetworkDataId)
       IN /\ lastFlowResult' =
                FlowResult("MigrateNetworkDataFromSolana", "OK",
                           [solanaData |-> solanaData, thrown |-> thrown],
                           MigrationResult(solanaData, migrationResults, now))
          /\ nextNetworkDataId' = nextNetworkDataId + Len(solanaData) - Cardinality(thrown)
    /\ UNCHANGED <<now, solanaVars, clientVars, flowVars, agreementVars, contractVars, lastTx, mockStores, mockNetworkData,
                   mockLastCall, settlementVars, bridgeVars, networkDataVault>>

\* region and timeRange of AggregateAndAnonymizeNetworkData
RegionNames == {"Tokyo", "Japan", "Kyoto"}
TimeRanges ==
    { [start |-> EPOCH, end |-> (MaxDays + 1) * SecondsPerDay],
      [start |-> 0, end |-> (MaxDays + 1) * SecondsPerDay] }

\* the sequences that hold each element of S once
Orderings(S) ==
    {s \in [1..Cardinality(S) -> S] : \A i, j \in 1..Cardinality(S) : s[i] = s[j] => i = j}

\* filteredData: the unconsumed records of the region and the time range,
\* in the order the vault query returned them
AggregateAndAnonymizeNetworkData(region, timeRange, filteredData) ==
    /\ filteredData \in
          Orderings({data \in networkDataVault :
                        /\ data.region.city = region \/ data.region.country = region
                        /\ data.timestamp > timeRange.start
                        /\ data.timestamp < timeRange.end})
    /\ nextNetworkDataId <= MaxNetworkDataIds + 1
    /\ IF filteredData = <<>>
       THEN /\ lastFlowResult' = FlowResult("AggregateAndAnonymizeNetworkData",
                                            "NoData", filteredData, <<>>)
            /\ UNCHANGED nextNetworkDataId
       ELSE /\ lastFlowResult' =
                  FlowResult("AggregateAndAnonymizeNetworkData", "OK", filteredData,
                             NetworkDataState(
                                 nextNetworkDataId, filteredData[1].region,
                                 aggregateMetrics([i \in DOMAIN filteredData |->
                                                      filteredData[i].metrics]),
                                 now, "solana_depin_aggregated"))
            /\ nextNetworkDataId' = nextNetworkDataId + 1
    /\ UNCHANGED <<now, solanaVars, clientVars, flowVars, agreementVars, contractVars, lastTx, mockStores, mockNetworkData,
                   mockLastCall, settlementVars, bridgeVars, networkDataVault>>

----------------------------------------------------------------------------

(* Queries by time window *)

\* the instants a caller may name as startTime and endTime
WindowInstants == {d * SecondsPerDay : d \in 0..MaxDays}

\* QueryNetworkDataByTimeRangeFlow: the unconsumed records with
\* timestamp.isAfter(startTime) && timestamp.isBefore(endTime)
QueryNetworkDataByTimeRangeFlow(startTime, endTime) ==
    /\ lastFlowResult' =
          FlowResult("QueryNetworkDataByTimeRangeFlow", "OK",
                     [start |-> startTime, end |-> endTime],
                     {data \in networkDataVault :
                         data.timestamp > startTime /\ data.timestamp < endTime})
    /\ UNCHANGED <<now, solanaVars, clientVars, flowVars, agreementVars, contractVars, lastTx, mockStores,
                   mockNetworkData, mockLastCall, settlementVars, bridgeVars,
                   networkDataVault, nextNetworkDataId>>

\* the indices of relevantData of getNetworkInsights: region === region &&
\* timestamp >= startTime && timestamp <= endTime
relevantData(region, startTime, endTime) ==
    {i \in DOMAIN mockNetworkData :
        /\ mockNetworkData[i].region = region
        /\ mockNetworkData[i].timestamp >= startTime
        /\ mockNetworkData[i].timestamp <= endTime}

\* MockCordaNetwork.getNetworkInsights: the insights are computed from
\* relevantData; performanceTrends has one entry for each of its elements
getNetworkInsights(region, startTime, endTime) ==
    /\ lastFlowResult' =
          FlowResult("getNetworkInsights", "OK",
                     [region |-> region, start |-> startTime, end |-> endTime],
                     relevantData(region, startTime, endTime))
    /\ UNCHANGED <<now, solanaVars, clientVars, flowVars, agreementVars, contractVars, lastTx, mockStores,
                   mockNetworkData, mockLastCall, settlementVars, bridgeVars,
                   networkDataVault, nextNetworkDataId>>

(* processDataSubmissions and anonymizeData as functions of a list of     *)
(* records: the list a query of the ingested records would return, in one *)
(* of its orders                                                          *)

\* at most this many records are ingested for an aggregation
MaxSubmissions == 3

AggregateSubmissions(submissions) ==
    /\ submissions # <<>>
    /\ submissions \in Orderings(dataSubmissions)
    /\ lastFlowResult' =
          FlowResult("processDataSubmissions", "OK", submissions,
                     anonymizeData(processDataSubmissions(submissions, now)))
    /\ UNCHANGED <<now, solanaVars, clientVars, flowVars, agreementVars, contractVars, lastTx, mockStores, mockNetworkData,
                   mockLastCall, settlementVars, bridgeVars, networkDataVault,
                   nextNetworkDataId>>

----------------------------------------------------------------------------

(***************************************************************************)
(* MockSolanaProgram (mock-solana/src/index.ts; web-demo/mock-solana.js is *)
(* the same program): the device registry and the reward engine.           *)
(* devices is the Map as a function from the registered ids to Device      *)
(* records; rewards and counters are whole tokens.                         *)
(***************************************************************************)

\* private rewardVault: number = 1000000000
InitialRewardVault == 1000000000

\* successful data submissions of one device, and registerDevice calls
MaxUptime == 2
MaxRegistrations == 2

SolanaDeviceIds == {"device-1", "device-2"}
SolanaOwners == {"owner-1"}

TokyoLocation == [latitude |-> 35, longitude |-> 139, accuracy |-> 10]
OsakaLocation == [latitude |-> 34, longitude |-> 135, accuracy |-> 20]

\* NetworkData: signalStrength in dBm, latency in ms, throughput in bps,
\* availability the ratio n / d
SolanaQualityData(signalStrength, latency, throughput, n, d, location) ==
    [signalStrength |-> signalStrength, latency |-> latency, throughput |-> throughput,
     availability |-> [n |-> n, d |-> d], location |-> location]

\* the submission of the quickstart (-65 dBm, 45 ms, 1.2 Mbps, 95%) and one
\* on every tier boundary
QuickstartQualityData == SolanaQualityData(-65, 45, 1200000, 95, 100, TokyoLocation)

SolanaQualitySamples ==
    { QuickstartQualityData,
      SolanaQualityData(-70, 50, 1000000, 100, 100, OsakaLocation) }

\* the record of a call: its arguments, "OK" or the message of the Error it
\* threw, the events it emitted, the reward it computed
NoSolanaCall ==
    [method |-> "none", deviceId |-> "", qualityData |-> <<>>, result |-> "none",
     events |-> <<>>, rewardAmount |-> 0]

SolanaCall(method, deviceId, qualityData, result, events, rewardAmount) ==
    [method |-> method, deviceId |-> deviceId, qualityData |-> qualityData,
     result |-> result, events |-> events, rewardAmount |-> rewardAmount]

signalMultiplier(qualityData) ==
    IF qualityData.signalStrength > -70 THEN DblFromRatio(15, 10)
    ELSE IF qualityData.signalStrength > -80 THEN DblFromRatio(8, 10)
    ELSE DblFromRatio(3, 10)

latencyMultiplier(qualityData) ==
    IF qualityData.latency < 50 THEN DblFromRatio(12, 10)
    ELSE IF qualityData.latency < 100 THEN DblFromInt(1)
    ELSE DblFromRatio(6, 10)

throughputMultiplier(qualityData) ==
    IF qualityData.throughput > 1000000 THEN DblFromRatio(13, 10)
    ELSE IF qualityData.throughput > 500000 THEN DblFromInt(1)
    ELSE DblFromRatio(7, 10)

availabilityMultiplier(qualityData) ==
    DblFromRatio(qualityData.availability.n, qualityData.availability.d)

\* 1.0 + (uptime / 1000) * 0.5
uptimeBonus(uptime) ==
    DblAdd(DblFromInt(1), DblMul(DblDivInt(DblFromInt(uptime), 1000), DblFromRatio(1, 2)))

\* signalMultiplier * latencyMultiplier * throughputMultiplier *
\* availabilityMultiplier * uptimeBonus, multiplied from the left
totalMultiplier(qualityData, uptime) ==
    DblMul(DblMul(DblMul(DblMul(signalMultiplier(qualityData),
                                latencyMultiplier(qualityData)),
                         throughputMultiplier(qualityData)),
                  availabilityMultiplier(qualityData)),
           uptimeBonus(uptime))

\* Math.floor(baseReward * totalMultiplier)
calculateReward(qualityData, uptime) ==
    Val({MathFloor(DblMul(DblFromInt(1000), m)) : m \in {totalMultiplier(qualityData, uptime)}})

\* calculateReward on its own
NoReward == [qualityData |-> <<>>, uptime |-> 0, returned |-> FALSE, rewardAmount |-> 0]

CalculateRewardReturns ==
    /\ lastReward # NoReward
    /\ ~lastReward.returned
    /\ lastReward' = [lastReward EXCEPT
                        !.returned = TRUE,
                        !.rewardAmount = calculateReward(lastReward.qualityData,
                                                         lastReward.uptime)]
    /\ UNCHANGED <<now, solanaState, solanaLastCall, clientVars, flowVars, agreementVars, contractVars,
                   lastTx, outsideCorda>>

NewDevice(deviceId, deviceType, location, owner) ==
    [id |-> deviceId, owner |-> owner, deviceType |-> deviceType, location |-> location,
     isActive |-> TRUE, totalUptime |-> 0, totalRewardsEarned |-> 0, lastActivity |-> now]

\* devices.set(deviceId, device); programState.totalDevices++
RegisterDeviceCall(deviceId, deviceType, location, owner) ==
    /\ devices' = MapSet(devices, deviceId, NewDevice(deviceId, deviceType, location, owner))
    /\ programState' = [programState EXCEPT !.totalDevices = @ + 1]
    /\ solanaLastCall' = SolanaCall("registerDevice", deviceId, <<>>, "OK", <<"deviceRegistered">>, 0)
    /\ UNCHANGED rewardVault

\* registerDevice, as often as the model's bound allows
registerDevice(deviceId, deviceType, location, owner) ==
    /\ programState.totalDevices < MaxRegistrations
    /\ RegisterDeviceCall(deviceId, deviceType, location, owner)

\* the device after an accepted submission that earned rewardAmount
SubmittedDevice(device, qualityData, rewardAmount) ==
    [device EXCEPT !.totalUptime = @ + 1,
                   !.totalRewardsEarned = @ + rewardAmount,
                   !.lastActivity = now,
                   !.location = qualityData.location]

\* the events submitData emits, and what a registered callback does when called
SubmissionEvents == {"dataSubmitted", "deviceUpdated"}
CallbackKinds == {"returns", "throws"}
NoListeners == [event \in SubmissionEvents |-> <<>>]
MaxListeners == 2

\* on(event, callback): the callback is appended to the event's list
on(event, callback) ==
    /\ Len(listeners[event]) < MaxListeners
    /\ listeners' = [listeners EXCEPT ![event] = Append(@, callback)]
    /\ UNCHANGED <<now, solanaVars, demoVars, appVars, flowVars, agreementVars, contractVars,
                   lastTx, outsideCorda>>

\* emit(event, data): listeners.forEach(callback => callback(data)); the first
\* callback that throws ends the loop, 0 when none throws
FirstThrowing(event) ==
    IF \E i \in 1..Len(listeners[event]) : listeners[event][i] = "throws"
    THEN CHOOSE i \in 1..Len(listeners[event]) :
            /\ listeners[event][i] = "throws"
            /\ \A j \in 1..(i - 1) : listeners[event][j] = "returns"
    ELSE 0

\* the exception of a callback leaves emit and the method that called it
emitThrows(event) == FirstThrowing(event) # 0

\* how many callbacks of the event emit has called when it returns or throws
CallbacksCalled(event) ==
    IF emitThrows(event) THEN FirstThrowing(event) ELSE Len(listeners[event])

\* the emits submitData gets to: deviceUpdated only when dataSubmitted returned
EmittedBySubmission ==
    IF emitThrows("dataSubmitted") THEN <<"dataSubmitted">>
    ELSE <<"dataSubmitted", "deviceUpdated">>

\* how the call ends for its caller
SubmissionOutcome ==
    IF emitThrows("dataSubmitted") \/ emitThrows("deviceUpdated")
    THEN "Listener threw" ELSE "OK"

\* submitData throws before it has changed anything
RejectSubmission(method, deviceId, qualityData, result) ==
    /\ solanaLastCall' = SolanaCall(method, deviceId, qualityData, result, <<>>, 0)
    /\ UNCHANGED solanaState

\* the updates of an accepted submission and its two events
AcceptSubmission(method, deviceId, qualityData, rewardAmount) ==
    /\ devices[deviceId].totalUptime < MaxUptime
    /\ devices' = [devices EXCEPT ![deviceId] =
                      SubmittedDevice(@, qualityData, rewardAmount)]
    /\ programState' = [programState EXCEPT !.totalRewardsDistributed = @ + rewardAmount]
    /\ rewardVault' = rewardVault - rewardAmount
    /\ solanaLastCall' = SolanaCall(method, deviceId, qualityData, SubmissionOutcome,
                                    EmittedBySubmission, rewardAmount)

\* submitData without the isActive check
SubmitDataCall_ignoresStatus(method, deviceId, qualityData) ==
    IF deviceId \notin DOMAIN devices
    THEN RejectSubmission(method, deviceId, qualityData, "Device not found")
    ELSE \E rewardAmount \in {calculateReward(qualityData, devices[deviceId].totalUptime)} :
            AcceptSubmission(method, deviceId, qualityData, rewardAmount)

\* submitData that increments totalUptime before it calculates the reward
SubmitDataCall_rewardAfterIncrement(method, deviceId, qualityData) ==
    IF deviceId \notin DOMAIN devices
    THEN RejectSubmission(method, deviceId, qualityData, "Device not found")
    ELSE IF ~devices[deviceId].isActive
    THEN RejectSubmission(method, deviceId, qualityData, "Device is not active")
    ELSE \E rewardAmount \in {calculateReward(qualityData, devices[deviceId].totalUptime + 1)} :
            AcceptSubmission(method, deviceId, qualityData, rewardAmount)

\* submitData with the InsufficientRewards check of the on-chain program
SubmitDataCall_checksVault(method, deviceId, qualityData) ==
    IF deviceId \notin DOMAIN devices
    THEN RejectSubmission(method, deviceId, qualityData, "Device not found")
    ELSE IF ~devices[deviceId].isActive
    THEN RejectSubmission(method, deviceId, qualityData, "Device is not active")
    ELSE \E rewardAmount \in {calculateReward(qualityData, devices[deviceId].totalUptime)} :
            IF rewardAmount > rewardVault
            THEN RejectSubmission(method, deviceId, qualityData,
                                  "Insufficient rewards in vault")
            ELSE AcceptSubmission(method, deviceId, qualityData, rewardAmount)

\* the body of submitData, by whichever caller
SubmitDataCall(method, deviceId, qualityData) ==
    IF deviceId \notin DOMAIN devices
    THEN RejectSubmission(method, deviceId, qualityData, "Device not found")
    ELSE IF ~devices[deviceId].isActive
    THEN RejectSubmission(method, deviceId, qualityData, "Device is not active")
    ELSE \E rewardAmount \in {calculateReward(qualityData, devices[deviceId].totalUptime)} :
            AcceptSubmission(method, deviceId, qualityData, rewardAmount)

MockSolanaProgram_submitData(deviceId, qualityData) ==
    SubmitDataCall("submitData", deviceId, qualityData)

\* a toggle that only ever deactivates
ToggledDevice_deactivates(device) ==
    [device EXCEPT !.isActive = FALSE, !.lastActivity = now]

\* device.isActive = !device.isActive; device.lastActivity = Date.now()
ToggledDevice(device) ==
    [device EXCEPT !.isActive = ~@, !.lastActivity = now]

toggleDeviceStatus(deviceId) ==
    /\ IF deviceId \notin DOMAIN devices
       THEN /\ solanaLastCall' =
                 SolanaCall("toggleDeviceStatus", deviceId, <<>>, "Device not found", <<>>, 0)
            /\ UNCHANGED devices
       ELSE /\ devices' = [devices EXCEPT ![deviceId] = ToggledDevice(@)]
            /\ solanaLastCall' =
                 SolanaCall("toggleDeviceStatus", deviceId, <<>>, "OK",
                            <<"deviceStatusChanged">>, 0)
    /\ UNCHANGED <<programState, rewardVault>>

\* the data the 30 s timer generates: -65..-45 dBm, 20..100 ms,
\* 0.5..2 Mbps, 80..100%, near the device
SimulatedQualitySamples(device) ==
    { SolanaQualityData(-65, 45, 1200000, 95, 100, device.location) }

\* the setInterval callback of startDataSimulation: a submission for one of
\* the active devices, nothing when there is none
simulateDataSubmission ==
    /\ \E deviceId \in DOMAIN devices : devices[deviceId].isActive
    /\ \E deviceId \in {d \in DOMAIN devices : devices[d].isActive} :
         \E qualityData \in SimulatedQualitySamples(devices[deviceId]) :
            SubmitDataCall("simulateDataSubmission", deviceId, qualityData)

\* getAllDevices(): Array.from(this.devices.values())
getAllDevices == {devices[id] : id \in DOMAIN devices}

\* getNetworkStats().totalDevices: devices.length of the map's values
getNetworkStats_totalDevices == Cardinality(DOMAIN devices)

\* getDevice(deviceId): the device or null
getDevice(deviceId) == IF deviceId \in DOMAIN devices THEN devices[deviceId] ELSE NoTx

\* initialize(): logs and emits programInitialized with the program state
MockSolanaProgram_initialize ==
    /\ solanaLastCall' = SolanaCall("initialize", "", <<>>, "OK", <<"programInitialized">>, 0)
    /\ UNCHANGED solanaState

\* a reset that clears the devices and the counters but leaves the vault
MockSolanaProgram_reset_keepsVault ==
    /\ devices' = [id \in {} |-> NoTx]
    /\ programState' = [totalDevices |-> 0, totalRewardsDistributed |-> 0, isActive |-> TRUE]
    /\ rewardVault' = rewardVault
    /\ solanaLastCall' = SolanaCall("reset", "", <<>>, "OK", <<>>, 0)

\* reset(): the program as constructed
MockSolanaProgram_reset ==
    /\ devices' = [id \in {} |-> NoTx]
    /\ programState' = [totalDevices |-> 0, totalRewardsDistributed |-> 0, isActive |-> TRUE]
    /\ rewardVault' = InitialRewardVault
    /\ solanaLastCall' = SolanaCall("reset", "", <<>>, "OK", <<>>, 0)

----------------------------------------------------------------------------

(***************************************************************************)
(* The roaming agreement flows step by step.  Several flows run at once on *)
(* the node; each queries the vault for the agreement's data, queries it   *)
(* again for the StateAndRef it adds as input, and hands the signed        *)
(* transaction to FinalityFlow, which verifies it and has the notary of    *)
(* the transaction commit its input.  A version of an agreement is         *)
(* <<id, n>>: the record with this id after n of its versions were         *)
(* consumed.                                                               *)
(***************************************************************************)

\* flows that may be between their first vault query and their FinalityFlow
MaxFlowsInFlight == 2

CurrentVersion(agreementId) ==
    IF agreementId \in DOMAIN stateVersion THEN stateVersion[agreementId] ELSE 0

\* how often the notary has recorded the version as consumed
TimesConsumed(version) ==
    IF version \in DOMAIN consumedVersions THEN consumedVersions[version] ELSE 0

\* agreementState.copy(...) of the flow
ProposedAgreementState(flow, s) ==
    IF flow = "Execute" THEN ExecutedAgreementState(s) ELSE TerminatedAgreementState(s)

\* the require of the flow
FlowRequires(flow, s) ==
    IF flow = "Execute" THEN RoamingAgreementState_isActive(s, now) ELSE s.status = "ACTIVE"

\* queryBy(...).states.find { it.state.data.id == agreementId }?.state?.data,
\* the require and the copy
FlowQueriesVault(flow, agreementId) ==
    /\ Cardinality(flowsInFlight) < MaxFlowsInFlight
    /\ IF \E s \in agreementVault : s.id = agreementId
       THEN \E s \in agreementVault :
              /\ s.id = agreementId
              /\ IF FlowRequires(flow, s)
                 THEN /\ flowsInFlight' = flowsInFlight \cup
                            {[flow |-> flow, id |-> agreementId, step |-> "queried",
                              input |-> s, inputVersion |-> CurrentVersion(agreementId),
                              output |-> ProposedAgreementState(flow, s)]}
                      /\ UNCHANGED lastTx
                 ELSE /\ lastTx' = FlowRun("RoamingAgreementContract", flow, flow,
                                           agreementId, "InvalidState", <<s>>, <<>>)
                      /\ UNCHANGED flowsInFlight
       ELSE /\ lastTx' = FlowRun("RoamingAgreementContract", flow, flow, agreementId,
                                 "NotFound", <<>>, <<>>)
            /\ UNCHANGED flowsInFlight
    /\ UNCHANGED <<now, agreementVars, contractVars, solanaVars, clientVars, stateVersion,
                   consumedVersions, outsideCorda>>

\* addInputState(queryBy(...).states.find { it.state.data.id == agreementId }!!):
\* the unconsumed version at this moment
FlowBuildsTransaction(f) ==
    /\ f \in flowsInFlight
    /\ f.step = "queried"
    /\ \E s \in agreementVault :
         /\ s.id = f.id
         /\ flowsInFlight' = (flowsInFlight \ {f}) \cup
                {[f EXCEPT !.step = "built", !.input = s,
                           !.inputVersion = CurrentVersion(f.id)]}
    /\ UNCHANGED <<now, agreementVars, contractVars, lastTx, solanaVars, clientVars, stateVersion,
                   consumedVersions, outsideCorda>>

\* a notary that commits whatever it is sent
NotaryCommits_unchecked(f) == TRUE

\* the notary of FinalityFlow commits a transaction whose input state is
\* unconsumed
NotaryCommits(f) ==
    /\ f.input \in agreementVault
    /\ f.inputVersion = CurrentVersion(f.id)

\* subFlow(FinalityFlow(signedTx, participants))
FlowFinalises(f) ==
    /\ f \in flowsInFlight
    /\ f.step = "built"
    /\ flowsInFlight' = flowsInFlight \ {f}
    /\ IF ~RoamingAgreementContract_verify(f.flow, <<f.input>>, <<f.output>>, now)
       THEN /\ lastTx' = FlowRun("RoamingAgreementContract", f.flow, f.flow, f.id,
                                 "VerificationFailed", <<f.input>>, <<f.output>>)
            /\ UNCHANGED <<agreementVault, stateVersion, consumedVersions>>
       ELSE IF ~NotaryCommits(f)
       THEN /\ lastTx' = FlowRun("RoamingAgreementContract", f.flow, f.flow, f.id,
                                 "NotaryConflict", <<f.input>>, <<f.output>>)
            /\ UNCHANGED <<agreementVault, stateVersion, consumedVersions>>
       ELSE /\ agreementVault' = (agreementVault \ {f.input}) \cup {f.output}
            /\ stateVersion' = MapSet(stateVersion, f.id, f.inputVersion + 1)
            /\ consumedVersions' = MapSet(consumedVersions, <<f.id, f.inputVersion>>,
                                          TimesConsumed(<<f.id, f.inputVersion>>) + 1)
            /\ lastTx' = FlowRun("RoamingAgreementContract", f.flow, f.flow, f.id,
                                 "OK", <<f.input>>, <<f.output>>)
    /\ UNCHANGED <<now, nextAgreementId, contractVars, solanaVars, clientVars, outsideCorda>>

----------------------------------------------------------------------------

(***************************************************************************)
(* The demo simulator of the web demo.  A call of startDemo that gets past *)
(* the isRunning check is a run: it runs the scenarios one after the       *)
(* other, each by setting one timeout per action and then awaiting a       *)
(* timeout of the scenario's duration.  Times are in seconds.              *)
(***************************************************************************)

MaxDemoRuns == 2

DemoLocation(accuracy) == [latitude |-> 35, longitude |-> 139, accuracy |-> accuracy]

\* createDemoScenarios()
DemoScenarios ==
    << [name |-> "Initial Setup", duration |-> 60,
        actions |->
          << [type |-> "register_device", delay |-> 1, deviceId |-> "demo_device_1",
              deviceType |-> "Smartphone", location |-> DemoLocation(10),
              owner |-> "demo_user_1"],
             [type |-> "register_device", delay |-> 5, deviceId |-> "demo_device_2",
              deviceType |-> "Router", location |-> DemoLocation(15),
              owner |-> "demo_user_2"],
             [type |-> "register_device", delay |-> 10, deviceId |-> "demo_device_3",
              deviceType |-> "Hotspot", location |-> DemoLocation(20),
              owner |-> "demo_user_3"] >>],
       [name |-> "Data Collection", duration |-> 120,
        actions |->
          << [type |-> "submit_data", delay |-> 15, deviceId |-> "demo_device_1",
              qualityData |-> SolanaQualityData(-65, 45, 1200000, 95, 100, DemoLocation(10))],
             [type |-> "submit_data", delay |-> 20, deviceId |-> "demo_device_2",
              qualityData |-> SolanaQualityData(-70, 35, 1500000, 98, 100, DemoLocation(15))],
             [type |-> "submit_data", delay |-> 25, deviceId |-> "demo_device_3",
              qualityData |-> SolanaQualityData(-75, 55, 800000, 92, 100, DemoLocation(20))] >>],
       [name |-> "B2B Integration", duration |-> 180,
        actions |->
          << [type |-> "create_agreement", delay |-> 30,
              terms |-> [dataSharing |-> TRUE, infrastructureAccess |-> TRUE,
                         revenueSharing |-> 15, duration |-> 12],
              networkData |-> [averageQuality |-> 95, coverageArea |-> 1000,
                               deviceCount |-> 3]],
             [type |-> "create_agreement", delay |-> 45,
              terms |-> [dataSharing |-> TRUE, infrastructureAccess |-> FALSE,
                         revenueSharing |-> 12, duration |-> 6],
              networkData |-> [averageQuality |-> 88, coverageArea |-> 800,
                               deviceCount |-> 2]] >>] >>

\* constructor(): isRunning = false, currentScenario = null, actionTimeouts = []
DemoSimulatorConstructed == [isRunning |-> FALSE, currentScenario |-> 0, actionTimeouts |-> {}]

NoDemoStep == [kind |-> "none", run |-> 0, scenario |-> 0, action |-> 0]

DemoStep(kind, run, scenario, action) ==
    [kind |-> kind, run |-> run, scenario |-> scenario, action |-> action]

\* the runs that have not left their loop over the scenarios
RunsInProgress == {r \in 1..Len(demoRuns) : demoRuns[r].scenario # 0}

\* when the pending timeouts are due: those of the actions (the entries of
\* actionTimeouts that have not fired) and those of the scenarios' durations
DemoTimersDue ==
    {t.due : t \in demoSimulator.actionTimeouts} \cup {demoRuns[r].due : r \in RunsInProgress}

\* what the mocks and the other clients keep while the demo takes a step
demoFrame ==
    UNCHANGED <<lastReward, listeners, appVars, flowVars, agreementVars, contractVars, lastTx,
                mockNetworkData, settlementVars, bridgeVars, networkDataVars>>

demoLeavesMocks == UNCHANGED <<solanaState, solanaLastCall, mockStores, mockLastCall>>

\* the clock reaches the next pending timeout
DemoTimePasses ==
    /\ DemoTimersDue # {}
    /\ \A due \in DemoTimersDue : now < due
    /\ now' = Val({due \in DemoTimersDue : \A other \in DemoTimersDue : due <= other})
    /\ UNCHANGED <<solanaVars, clientVars, flowVars, agreementVars, contractVars, lastTx,
                   outsideCorda>>

\* runScenario up to its await: one setTimeout per action, pushed to
\* actionTimeouts, and the setTimeout of the duration
ScenarioTimeouts(run, scenario) ==
    { [run |-> run, scenario |-> scenario, action |-> i,
       due |-> now + DemoScenarios[scenario].actions[i].delay] :
         i \in 1..Len(DemoScenarios[scenario].actions) }

\* startDemo(): nothing when isRunning; else isRunning = true, initialize()
\* and the first scenario up to its await
startDemo ==
    /\ IF demoSimulator.isRunning
       THEN /\ demoLastStep' = DemoStep("alreadyRunning", 0, 0, 0)
            /\ UNCHANGED <<demoSimulator, demoRuns, solanaState, solanaLastCall>>
       ELSE /\ Len(demoRuns) < MaxDemoRuns
            /\ MockSolanaProgram_initialize
            /\ LET run == Len(demoRuns) + 1 IN
               /\ demoSimulator' =
                    [isRunning |-> TRUE, currentScenario |-> 1,
                     actionTimeouts |-> demoSimulator.actionTimeouts
                                          \cup ScenarioTimeouts(run, 1)]
               /\ demoRuns' = Append(demoRuns, [scenario |-> 1, stopped |-> FALSE,
                                                due |-> now + DemoScenarios[1].duration])
               /\ demoLastStep' = DemoStep("startDemo", run, 1, 0)
    /\ UNCHANGED <<now, mockStores, mockLastCall>>
    /\ demoFrame

\* history: the runs in progress have been stopped; they stay at their await
StoppedRuns(runs) ==
    [r \in 1..Len(runs) |->
        IF runs[r].scenario # 0 THEN [runs[r] EXCEPT !.stopped = TRUE] ELSE runs[r]]

\* stopDemo(): isRunning = false, every entry of actionTimeouts cleared
stopDemo ==
    /\ demoSimulator' = [demoSimulator EXCEPT !.isRunning = FALSE, !.actionTimeouts = {}]
    /\ demoRuns' = StoppedRuns(demoRuns)
    /\ demoLastStep' = DemoStep("stopDemo", 0, 0, 0)
    /\ UNCHANGED now
    /\ demoLeavesMocks
    /\ demoFrame

\* executeAction(action): the call of the mock for the action's type; an
\* exception of the call is caught and logged
executeAction(action) ==
    CASE action.type = "register_device" ->
           /\ RegisterDeviceCall(action.deviceId, action.deviceType, action.location,
                                 action.owner)
           /\ UNCHANGED <<mockStores, mockLastCall>>
      [] action.type = "submit_data" ->
           /\ SubmitDataCall("submitData", action.deviceId, action.qualityData)
           /\ UNCHANGED <<mockStores, mockLastCall>>
      [] action.type = "create_agreement" ->
           /\ createRoamingAgreementCall(action.terms, action.networkData)
           /\ UNCHANGED <<solanaState, solanaLastCall, mockInfrastructureContracts>>

\* the timeout of an action fires: its callback runs executeAction
ActionTimeoutFires(timeout) ==
    /\ timeout \in demoSimulator.actionTimeouts
    /\ timeout.due = now
    /\ demoSimulator' = [demoSimulator EXCEPT !.actionTimeouts = @ \ {timeout}]
    /\ executeAction(DemoScenarios[timeout.scenario].actions[timeout.action])
    /\ demoLastStep' = DemoStep("action", timeout.run, timeout.scenario, timeout.action)
    /\ UNCHANGED <<now, demoRuns>>
    /\ demoFrame

\* the timeout of a scenario's duration fires: runScenario clears
\* actionTimeouts and returns, startDemo goes on with the next scenario or,
\* after the last, sets isRunning = false
ScenarioDurationElapses(run) ==
    /\ run \in RunsInProgress
    /\ demoRuns[run].due = now
    /\ LET scenario == demoRuns[run].scenario IN
       IF scenario < Len(DemoScenarios)
       THEN /\ demoSimulator' =
                 [demoSimulator EXCEPT !.currentScenario = scenario + 1,
                                       !.actionTimeouts = ScenarioTimeouts(run, scenario + 1)]
            /\ demoRuns' = [demoRuns EXCEPT ![run].scenario = scenario + 1,
                                            ![run].due = now + DemoScenarios[scenario + 1].duration]
            /\ demoLastStep' = DemoStep("scenario", run, scenario + 1, 0)
       ELSE /\ demoSimulator' = [demoSimulator EXCEPT !.isRunning = FALSE,
                                                      !.actionTimeouts = {}]
            /\ demoRuns' = [demoRuns EXCEPT ![run].scenario = 0]
            /\ demoLastStep' = DemoStep("completed", run, 0, 0)
    /\ UNCHANGED now
    /\ demoLeavesMocks
    /\ demoFrame

(***************************************************************************)
(* The automatic data collection of the web demo's app and of the SDK's    *)
(* MobileDePINClient: setInterval timers whose callback collects the       *)
(* location and the network data and then submits them.                    *)
(***************************************************************************)

\* at most this many timers are started by the app, and by the SDK client
MaxIntervals == 2

\* the device of the app and of the SDK client
AppDeviceId == "device-1"

\* intervals: the setInterval timers not cleared; collecting: the timers
\* whose callback awaits the location; started: how many timers have been
\* started; submitters (history): the timers that have submitted since the
\* collection was last turned on
AppConstructed ==
    [isDataCollectionActive |-> FALSE, intervals |-> {}, collecting |-> {}, started |-> 0,
     submitters |-> {}]

MobileDePINClientConstructed ==
    [isActive |-> FALSE, dataInterval |-> 0, intervals |-> {}, collecting |-> {},
     started |-> 0, submitters |-> {}]

appFrame ==
    UNCHANGED <<now, lastReward, listeners, demoVars, flowVars, agreementVars, contractVars,
                lastTx, mockStores, mockNetworkData, mockLastCall, settlementVars,
                migrationTimers, migrationRuns, finishedRuns, cordaNetworkData,
                networkDataVars>>

appLeavesPrograms == UNCHANGED <<solanaState, solanaLastCall, dataSubmissions>>

\* startDataCollectionSimulation(): setInterval(callback, 30000); the timer
\* is known to its callback only
startDataCollectionSimulation(app) ==
    [app EXCEPT !.intervals = @ \cup {app.started + 1}, !.started = @ + 1, !.submitters = {}]

\* toggleDataCollection(): turns the flag off, or turns it on and starts a timer
toggleDataCollection ==
    /\ IF webApp.isDataCollectionActive
       THEN webApp' = [webApp EXCEPT !.isDataCollectionActive = FALSE]
       ELSE /\ webApp.started < MaxIntervals
            /\ webApp' = startDataCollectionSimulation(
                            [webApp EXCEPT !.isDataCollectionActive = TRUE])
    /\ UNCHANGED mobileClient
    /\ appLeavesPrograms
    /\ appFrame

\* the change listener of the toggle: the flag follows the checkbox, a timer
\* is started when it is checked
ToggleChanged(checked) ==
    /\ IF checked
       THEN /\ webApp.started < MaxIntervals
            /\ webApp' = startDataCollectionSimulation(
                            [webApp EXCEPT !.isDataCollectionActive = TRUE])
       ELSE webApp' = [webApp EXCEPT !.isDataCollectionActive = FALSE]
    /\ UNCHANGED mobileClient
    /\ appLeavesPrograms
    /\ appFrame

\* the callback of a timer: clearInterval when the flag is off, else
\* collectAndSubmitData up to its await of getCurrentLocation
AppIntervalFires(interval) ==
    /\ interval \in webApp.intervals
    /\ interval \notin webApp.collecting
    /\ IF ~webApp.isDataCollectionActive
       THEN webApp' = [webApp EXCEPT !.intervals = @ \ {interval}]
       ELSE webApp' = [webApp EXCEPT !.collecting = @ \cup {interval}]
    /\ UNCHANGED mobileClient
    /\ appLeavesPrograms
    /\ appFrame

\* collectAndSubmitData once the location is there: submitData of the mock
\* for the app's device; an exception of the call is caught and logged
AppSubmitsCollectedData(interval, qualityData) ==
    /\ interval \in webApp.collecting
    /\ webApp' = [webApp EXCEPT !.collecting = @ \ {interval},
                                !.submitters = @ \cup {interval}]
    /\ SubmitDataCall("collectAndSubmitData", AppDeviceId, qualityData)
    /\ UNCHANGED <<mobileClient, dataSubmissions>>
    /\ appFrame

\* startDataCollection(): nothing when isActive; else isActive = true and
\* dataInterval = setInterval(callback, intervalMs)
startDataCollection ==
    /\ IF mobileClient.isActive
       THEN UNCHANGED mobileClient
       ELSE /\ mobileClient.started < MaxIntervals
            /\ mobileClient' =
                 [mobileClient EXCEPT !.isActive = TRUE,
                                      !.dataInterval = mobileClient.started + 1,
                                      !.intervals = @ \cup {mobileClient.started + 1},
                                      !.started = @ + 1,
                                      !.submitters = {}]
    /\ UNCHANGED webApp
    /\ appLeavesPrograms
    /\ appFrame

\* stopDataCollection(): clearInterval(dataInterval), dataInterval = null
\* when there is one; isActive = false
StoppedClient(client) ==
    [client EXCEPT !.intervals = @ \ {client.dataInterval},
                   !.dataInterval = 0,
                   !.isActive = FALSE]

stopDataCollection ==
    /\ mobileClient' = StoppedClient(mobileClient)
    /\ UNCHANGED webApp
    /\ appLeavesPrograms
    /\ appFrame

\* the callback of the client's timer: collectAndSubmitData up to its await
\* of collectNetworkData
MobileIntervalFires(interval) ==
    /\ interval \in mobileClient.intervals
    /\ interval \notin mobileClient.collecting
    /\ mobileClient' = [mobileClient EXCEPT !.collecting = @ \cup {interval}]
    /\ UNCHANGED webApp
    /\ appLeavesPrograms
    /\ appFrame

\* collectAndSubmitData once the data is there: client.submitData; the
\* program creates the account of the submission unless the address derived
\* from the device and the clock value is taken, an error is caught and logged
MobileSubmitsCollectedData(interval, qualityData) ==
    /\ interval \in mobileClient.collecting
    /\ mobileClient' = [mobileClient EXCEPT !.collecting = @ \ {interval},
                                            !.submitters = @ \cup {interval}]
    /\ IF \E sub \in dataSubmissions : sub.device = AppDeviceId /\ sub.timestamp = now
       THEN UNCHANGED dataSubmissions
       ELSE dataSubmissions' =
              dataSubmissions \cup {DataSubmission(AppDeviceId, qualityData, now)}
    /\ UNCHANGED <<webApp, solanaState, solanaLastCall>>
    /\ appFrame

(* The clock *)

\* The clock moves on; the last flow run has been reported to its caller.
Tick ==
    /\ now + SecondsPerDay <= MaxDays * SecondsPerDay
    /\ now' = now + SecondsPerDay
    /\ lastTx' = NoTx
    /\ mockLastCall' = NoCall
    /\ lastFlowResult' = NoResult
    /\ solanaLastCall' = NoSolanaCall
    /\ UNCHANGED <<agreementVars, contractVars, mockStores, mockNetworkData, settlementVars,
                   bridgeVars, networkDataVault, nextNetworkDataId, solanaState, lastReward,
                   flowVars, clientVars>>

----------------------------------------------------------------------------
\* the state after construction, but for the Solana program's accounts and
\* the reward calculation observed
ConstructedBesideProgram ==
    /\ now = 0
    /\ agreementVault = {}
    /\ nextAgreementId = 1
    /\ contractVault = {}
    /\ nextContractId = 1
    /\ lastTx = NoTx
    /\ executionsSinceSettlement = [c \in {} |-> 0]
    /\ mockRoamingAgreements = [id \in {} |-> NoTx]
    /\ mockInfrastructureContracts = [id \in {} |-> NoTx]
    /\ mockLastCall = NoCall
    /\ lastCalc = NoCalc
    /\ dataSubmissions = {}
    /\ migrationTimers = <<>>
    /\ migrationRuns = {}
    /\ finishedRuns = {}
    /\ cordaNetworkData = <<>>
    /\ networkDataVault = {}
    /\ nextNetworkDataId = 1
    /\ lastFlowResult = NoResult
    /\ mockNetworkData = <<>>
    /\ solanaLastCall = NoSolanaCall
    /\ flowsInFlight = {}
    /\ stateVersion = [id \in {} |-> 0]
    /\ consumedVersions = [version \in {} |-> 0]
    /\ listeners = NoListeners
    /\ demoSimulator = DemoSimulatorConstructed
    /\ demoRuns = <<>>
    /\ demoLastStep = NoDemoStep
    /\ webApp = AppConstructed
    /\ mobileClient = MobileDePINClientConstructed

\* the Solana program as constructed
ProgramConstructed ==
    /\ devices = [id \in {} |-> NoTx]
    /\ programState = [totalDevices |-> 0, totalRewardsDistributed |-> 0, isActive |-> TRUE]
    /\ rewardVault = InitialRewardVault

\* the state after construction, but for the reward calculation observed
Constructed == ConstructedBesideProgram /\ ProgramConstructed

Init == Constructed /\ lastReward = NoReward

\* the ids a caller may name: every id of the pool and one never handed out
AgreementIds == AgreementIdPool \cup {Cardinality(AgreementIdPool) + 1}

Next ==
    \/ Tick
    \/ \E r \in CreateAgreementSamples :
         CreateRoamingAgreementFlow(r.terms, r.participants)
    \/ \E id \in AgreementIds : ActivateRoamingAgreementFlow(id)
    \/ \E id \in AgreementIds : ExecuteRoamingAgreementFlow(id)
    \/ \E id \in AgreementIds : TerminateRoamingAgreementFlow(id)

Spec == Init /\ [][Next]_vars

ContractIds == ContractIdPool \cup {Cardinality(ContractIdPool) + 1}

NextContract ==
    \/ Tick
    \/ \E r \in CreateContractSamples :
         CreateInfrastructureContractFlow(r.contractType, r.terms,
                                          r.networkRequirements, r.participants)
    \/ \E id \in ContractIds : ActivateInfrastructureContractFlow(id)
    \/ \E id \in ContractIds : ExecuteInfrastructureContractFlow(id)
    \/ \E id \in ContractIds : SettleInfrastructureContractFlow(id)
    \/ \E id \in ContractIds : TerminateInfrastructureContractFlow(id)

SpecContract == Init /\ [][NextContract]_vars

----------------------------------------------------------------------------
(* InfrastructureContract transactions built by any participant of the    *)
(* ledger, not only by the flows above: whether one is recorded is decided *)
(* by the contract's verify alone.  The outputs a participant proposes for *)
(* an input s differ from s in id, status and the three times; a           *)
(* transaction has 0..2 inputs and 0..2 outputs.                           *)

TxShapes == {<<1, 1>>, <<1, 0>>, <<1, 2>>, <<2, 1>>, <<0, 1>>}

ProposedContractOutputs(s) ==
    { [s EXCEPT !.id = i, !.status = st, !.lastExecutionTime = le,
                !.lastSettlementTime = ls, !.terminationTime = tt] :
        i \in ContractIds, st \in {s.status, "ACTIVE", "TERMINATED"},
        le \in {s.lastExecutionTime, now}, ls \in {s.lastSettlementTime, now},
        tt \in {s.terminationTime, now} }

TxInputs(shape, s, s2) ==
    CASE shape[1] = 0 -> <<>>
      [] shape[1] = 1 -> <<s>>
      [] shape[1] = 2 -> <<s, s2>>

TxOutputs(shape, s, o) ==
    CASE shape[2] = 0 -> <<>>
      [] shape[2] = 1 -> <<o>>
      [] shape[2] = 2 -> <<o, s>>

\* InfrastructureContract.verify applied to a participant's transaction
InfrastructureLedgerTransaction(command, inputs, outputs) ==
    /\ IF InfrastructureContract_verify(command, inputs, outputs, now)
       THEN /\ contractVault' =
                 (contractVault \ {inputs[i] : i \in 1..Len(inputs)})
                     \cup {outputs[i] : i \in 1..Len(outputs)}
            /\ lastTx' = FlowRun("InfrastructureContract", "Ledger", command,
                                 0, "OK", inputs, outputs)
       ELSE /\ contractVault' = contractVault
            /\ lastTx' = FlowRun("InfrastructureContract", "Ledger", command,
                                 0, "VerificationFailed", <<>>, <<>>)
    /\ UNCHANGED <<now, solanaVars, clientVars, flowVars, nextContractId, executionsSinceSettlement, agreementVars, outsideCorda>>

NextLedger ==
    \/ Tick
    \/ \E r \in CreateContractSamples :
         CreateInfrastructureContractFlow(r.contractType, r.terms,
                                          r.networkRequirements, r.participants)
    \/ \E command \in {"Update", "Execute", "Settle", "Terminate"}, shape \in TxShapes,
          s \in contractVault, s2 \in contractVault :
         \E o \in ProposedContractOutputs(s) :
            InfrastructureLedgerTransaction(command, TxInputs(shape, s, s2),
                                            TxOutputs(shape, s, o))

SpecLedger == Init /\ [][NextLedger]_vars

NextMock ==
    \/ Tick
    \/ \E terms \in MockAgreementTermsSamples :
         createRoamingAgreement(terms, MockNetworkDataSample)
    \/ \E terms \in MockContractTermsSamples :
         createInfrastructureContract("TOWER_SHARING", terms,
                                      MockNetworkRequirementsSample)
    \/ \E id \in MockIds : executeRoamingAgreement(id)
    \/ \E id \in MockIds : executeInfrastructureContract(id)
    \/ reset

SpecMock == Init /\ [][NextMock]_vars

----------------------------------------------------------------------------
\* the settlement calculations, next to the commands that find a record by
\* id; one agreement in the vault and one in the mock are enough for them
\* the create requests that are accepted
ValidCreateAgreementRequests ==
    {r \in CreateAgreementSamples :
        RoamingAgreementContract_verifyCreate(<<>>, <<[terms |-> r.terms,
                                                      participants |-> r.participants]>>)}

ValidCreateContractRequests ==
    {r \in CreateContractSamples :
        /\ InfrastructureTerms_isValid(r.terms)
        /\ NetworkRequirements_isValid(r.networkRequirements)
        /\ r.participants >= 2}

NextSettlement ==
    \/ Tick
    \/ /\ agreementVault = {}
       /\ \E r \in ValidCreateAgreementRequests :
            CreateRoamingAgreementFlow(r.terms, r.participants)
    \/ \E r \in ValidCreateContractRequests :
         CreateInfrastructureContractFlow(r.contractType, r.terms,
                                          r.networkRequirements, r.participants)
    \/ \E id \in AgreementIds : ExecuteRoamingAgreementFlow(id)
    \/ \E id \in ContractIds : SettleInfrastructureContractFlow(id)
    \/ \E id \in ContractIds : TerminateInfrastructureContractFlow(id)
    \/ /\ DOMAIN mockRoamingAgreements = {}
       /\ createRoamingAgreement(ValidAgreementTerms(1), MockNetworkDataSample)
    \/ \E id \in AgreementIds, u \in UsageSamples : CalculateRevenueSharingFlow(id, u)
    \/ \E id \in ContractIds, u \in InfrastructureUsageSamples :
         CalculateInfrastructureCostsFlow(id, u)
    \/ \E id \in MockIds, u \in UsageSamples : calculateRevenueSharing(id, u)

SpecSettlement == Init /\ [][NextSettlement]_vars

NextBridge ==
    \/ Tick
    \/ \E d \in Devices : submitData(d, TypicalQualityData)
    \/ \E h \in IntervalHoursSamples : setupAutomatedMigration(h)
    \/ \E i \in 1..MaxTimers : AutomatedMigrationFires(i)
    \/ \E r \in migrationRuns, ok \in BOOLEAN : AutomatedMigrationResumes(r, ok)

SpecBridge == Init /\ [][NextBridge]_vars

(* What the last flow run was *)

AgreementFlowRan(flow) ==
    /\ lastTx.contract = "RoamingAgreementContract"
    /\ lastTx.flow = flow
    /\ Len(lastTx.inputs) = 1

ContractFlowRan(flow) ==
    /\ lastTx.contract = "InfrastructureContract"
    /\ lastTx.flow = flow
    /\ Len(lastTx.inputs) = 1

Accepted == lastTx.result = "OK"

----------------------------------------------------------------------------
(* C1: once the stored status of an agreement or contract is TERMINATED,  *)
(* every later command on that id is rejected (so the status stays        *)
(* TERMINATED); in particular activate on a TERMINATED version is         *)
(* rejected: no accepted transaction consumes a TERMINATED version.       *)
C1_TerminatedIsFinal ==
    ~(/\ Accepted
      /\ Len(lastTx.inputs) = 1
      /\ lastTx.inputs[1].status = "TERMINATED")

(* C2: execute on a PENDING agreement is rejected with InvalidState;      *)
(* execute on an ACTIVE, non-expired agreement succeeds and its new       *)
(* lastExecutionTime is strictly greater than the prior one, also when    *)
(* the command reads the same clock value as the command before it.       *)
C2_ExecuteStrictlyAdvances ==
    AgreementFlowRan("Execute") =>
        LET in == lastTx.inputs[1] IN
        /\ in.status = "PENDING" => lastTx.result = "InvalidState"
        /\ (in.status = "ACTIVE" /\ ~RoamingAgreementState_isExpired(in, lastTx.time))
             => /\ Accepted
                /\ lastTx.outputs[1].lastExecutionTime > in.lastExecutionTime

(* C3: terminate is accepted only when the stored status is ACTIVE; on a  *)
(* TERMINATED, PENDING or SUSPENDED agreement it fails with InvalidState  *)
(* and the stored version stays; an accepted terminate replaces the       *)
(* version by one with status TERMINATED and terminationTime = now.       *)
C3_TerminateOnlyWhenActive ==
    AgreementFlowRan("Terminate") =>
        LET in == lastTx.inputs[1] IN
        /\ in.status # "ACTIVE" =>
              /\ lastTx.result = "InvalidState"
              /\ in \in agreementVault
        /\ Accepted =>
              /\ in.status = "ACTIVE"
              /\ Len(lastTx.outputs) = 1
              /\ lastTx.outputs[1].status = "TERMINATED"
              /\ lastTx.outputs[1].terminationTime = now
              /\ lastTx.outputs[1] \in agreementVault
              /\ in \notin agreementVault

\* a terminate was accepted and a second terminate on the now TERMINATED
\* agreement was rejected
C3_Witness ==
    /\ AgreementFlowRan("Terminate")
    /\ lastTx.result = "InvalidState"
    /\ lastTx.inputs[1].status = "TERMINATED"
    /\ lastTx.inputs[1].terminationTime # NullInstant

(* C4: activate is accepted only when the input version is PENDING or     *)
(* SUSPENDED (so activate on an ACTIVE agreement is rejected); an accepted *)
(* activate produces status ACTIVE with lastExecutionTime = now.          *)
C4_ActivateOnlyPendingOrSuspended ==
    (AgreementFlowRan("Activate") /\ Accepted) =>
        /\ lastTx.inputs[1].status \in {"PENDING", "SUSPENDED"}
        /\ lastTx.outputs[1].status = "ACTIVE"
        /\ lastTx.outputs[1].lastExecutionTime = lastTx.time

C6_ActiveQueryExcludesExpired ==
    \A s \in QueryActiveRoamingAgreementsFlow :
        ~RoamingAgreementState_isExpired(s, now)

(* C7: every accepted mutating command (update, execute, settle,          *)
(* terminate) consumes exactly one prior version and produces exactly one *)
(* new version with the id of the consumed version: no accepted           *)
(* transaction of any command type changes the id.                        *)
C7_IdImmutable ==
    (Accepted /\ lastTx.command # "Create") =>
        /\ Len(lastTx.inputs) = 1
        /\ Len(lastTx.outputs) = 1
        /\ lastTx.inputs[1].id = lastTx.outputs[1].id

(* C8: create accepts only valid terms (revenueSharing in [0,100],        *)
(* duration > 0, minimumQuality in [0,1], coverageArea > 0,               *)
(* performanceMetrics non-empty); with invalid terms it fails with        *)
(* ValidationError and stores no agreement; every accepted create stores  *)
(* a record with status PENDING.                                          *)
C8_CreateValidatesTerms ==
    /\ mockLastCall.method = "createRoamingAgreement" =>
          IF AgreementTerms_isValid(mockLastCall.terms)
          THEN /\ mockLastCall.result = "OK"
               /\ mockRoamingAgreements[mockLastCall.id].status = "PENDING"
          ELSE mockLastCall.result = "ValidationError"
    /\ \A id \in DOMAIN mockRoamingAgreements :
          AgreementTerms_isValid(mockRoamingAgreements[id].terms)
    /\ (lastTx.contract = "RoamingAgreementContract" /\ lastTx.flow = "Create") =>
          IF AgreementTerms_isValid(lastTx.outputs[1].terms)
               /\ lastTx.outputs[1].participants >= 2
          THEN /\ Accepted
               /\ lastTx.outputs[1].status = "PENDING"
               /\ lastTx.outputs[1] \in agreementVault
          ELSE /\ lastTx.result = "ValidationError"
               /\ lastTx.outputs[1] \notin agreementVault

(* C9: settle on a contract is accepted exactly when the stored status is *)
(* ACTIVE, expired or not (given a clock reading after the previous       *)
(* settlement, so that the time can advance), and every accepted settle   *)
(* sets lastSettlementTime strictly greater than before.                  *)
C9_SettleExactlyWhenActive ==
    ContractFlowRan("Settle") =>
        LET in == lastTx.inputs[1] IN
        /\ Accepted =>
              /\ in.status = "ACTIVE"
              /\ lastTx.outputs[1].lastSettlementTime > in.lastSettlementTime
        /\ (in.status = "ACTIVE" /\ lastTx.time > in.lastSettlementTime) => Accepted

(* C10: execute and settle on a contract are independent: an accepted     *)
(* execute leaves lastSettlementTime and status as they were, an accepted *)
(* settle leaves lastExecutionTime and status as they were, and whether   *)
(* an execute is accepted does not depend on the settlements (an ACTIVE,  *)
(* non-expired contract accepts every execute that advances               *)
(* lastExecutionTime, however many came since the last settle).           *)
C10_ExecuteSettleIndependent ==
    /\ (ContractFlowRan("Execute") /\ Accepted) =>
          /\ lastTx.outputs[1].lastSettlementTime = lastTx.inputs[1].lastSettlementTime
          /\ lastTx.outputs[1].status = lastTx.inputs[1].status
    /\ (ContractFlowRan("Settle") /\ Accepted) =>
          /\ lastTx.outputs[1].lastExecutionTime = lastTx.inputs[1].lastExecutionTime
          /\ lastTx.outputs[1].status = lastTx.inputs[1].status
    /\ ContractFlowRan("Execute") =>
          LET in == lastTx.inputs[1] IN
          (/\ InfrastructureContractState_isActive(in, lastTx.time)
           /\ lastTx.time > in.lastExecutionTime) => Accepted

\* a second execute accepted after an earlier settle and before the next one
C10_Witness ==
    /\ ContractFlowRan("Execute")
    /\ Accepted
    /\ lastTx.inputs[1].lastSettlementTime > lastTx.inputs[1].creationTime
    /\ executionsSinceSettlement[lastTx.id] >= 2

(* C11: a command rejected with InvalidState (execute, settle or          *)
(* terminate whose status or expiry precondition fails) changes nothing:  *)
(* the vaults and the mock's stores are the same before and after the     *)
(* step, and the version the command looked up is still the current one.  *)
C11_RejectedChangesNothing ==
    [][ /\ (lastTx'.result = "InvalidState") =>
              /\ agreementVault' = agreementVault
              /\ contractVault' = contractVault
              /\ \/ lastTx'.inputs[1] \in contractVault'
                 \/ lastTx'.inputs[1] \in agreementVault'
        /\ (mockLastCall'.result = "InvalidState") =>
              /\ mockRoamingAgreements' = mockRoamingAgreements
              /\ mockInfrastructureContracts' = mockInfrastructureContracts
      ]_vars

\* a settle rejected on an ACTIVE contract that has expired, whose looked-up
\* version is still in the vault
C11_Witness ==
    /\ ContractFlowRan("Settle")
    /\ lastTx.result = "InvalidState"
    /\ lastTx.inputs[1].status = "ACTIVE"
    /\ lastTx.inputs[1] \in contractVault

\* the money of a calculation's result: the result without its calculationDate
CalcMoney(c) ==
    IF c.impl = "mock" THEN c.value
    ELSE [f \in DOMAIN c.value \ {"calculationDate"} |-> c.value[f]]

\* the step is a command or calculation that names an id no record has
C12_UnknownIdStep ==
    \/ /\ lastTx' # lastTx
       /\ lastTx'.flow \in {"Execute", "Settle", "Terminate"}
       /\ ~\E s \in agreementVault \cup contractVault : s.id = lastTx'.id
    \/ /\ lastCalc' # lastCalc
       /\ lastCalc'.impl = "corda"
       /\ ~\E s \in (IF lastCalc'.flow = "CalculateRevenueSharing"
                     THEN agreementVault ELSE contractVault) : s.id = lastCalc'.id
    \/ /\ lastCalc' # lastCalc
       /\ lastCalc'.impl = "mock"
       /\ lastCalc'.id \notin DOMAIN mockRoamingAgreements

C12_NothingStoredChanges ==
    /\ agreementVault' = agreementVault
    /\ contractVault' = contractVault
    /\ mockRoamingAgreements' = mockRoamingAgreements
    /\ mockInfrastructureContracts' = mockInfrastructureContracts

C12_SameCalculation ==
    /\ lastCalc.result = "OK"
    /\ lastCalc'.result = "OK"
    /\ lastCalc'.impl = lastCalc.impl
    /\ lastCalc'.flow = lastCalc.flow
    /\ lastCalc'.record = lastCalc.record
    /\ lastCalc'.usage = lastCalc.usage

----------------------------------------------------------------------------

(* C13, C14: the scheduled migration and the ingestion *)

\* a finished run whose window [startTime, endTime) holds the record's
\* timestamp
WindowHolds(f, sub) == f.startTime <= sub.timestamp /\ sub.timestamp < f.endTime

\* C13: every ingested record is in the aggregate of exactly one migration
\* run: a finished run whose window holds the record aggregated it (no
\* record is missed), and no two runs aggregated the same record.
C13_AggregatedExactlyOnce ==
    \A sub \in dataSubmissions :
        /\ \A f \in finishedRuns : WindowHolds(f, sub) => sub \in f.submissions
        /\ Cardinality({f \in finishedRuns : sub \in f.submissions}) <= 1

\* a record was ingested, and a run whose window holds it has finished
C13_Witness ==
    \E sub \in dataSubmissions : \E f \in finishedRuns : WindowHolds(f, sub)

C14_Witness ==
    /\ migrationRuns # {}
    /\ \E i \in 1..Len(migrationTimers) : now >= migrationTimers[i].due


----------------------------------------------------------------------------
\* the mock's migration of batches of data points
NextMockMigration ==
    \/ Tick
    \/ \E solanaData \in SolanaDataBatches : \E region \in MockRegions :
         migrateNetworkDataFromSolana(solanaData, region)
    \/ reset

SpecMockMigration == Init /\ [][NextMockMigration]_vars

\* the migration flow of SolanaCordaBridge
NextMigration ==
    \/ Tick
    \/ \E solanaData \in SolanaNetworkDataBatches : \E thrown \in SUBSET (1..MaxBatch) :
         MigrateNetworkDataFromSolana(solanaData, thrown)

SpecMigration == Init /\ [][NextMigration]_vars

\* the flows that create and roll up NetworkDataState records
NextNetworkData ==
    \/ \E r \in CreateNetworkDataSamples : CreateNetworkDataFlow(r.region, r.metrics)
    \/ \E ids \in NetworkDataIdLists : AggregateNetworkDataFlow(ids)
    \/ \E region \in RegionNames : \E timeRange \in TimeRanges :
         \E filteredData \in Orderings({data \in networkDataVault :
                                           /\ data.region.city = region
                                              \/ data.region.country = region
                                           /\ data.timestamp > timeRange.start
                                           /\ data.timestamp < timeRange.end}) :
            AggregateAndAnonymizeNetworkData(region, timeRange, filteredData)

SpecNetworkData == Init /\ [][NextNetworkData]_vars


----------------------------------------------------------------------------

(* C15: the aggregates stored in the permissioned layer *)

\* C15: no empty aggregate is ever created: every regional aggregate stored
\* in the permissioned layer (the mock's list, the records posted by the
\* bridge, the vault) has dataPoints >= 1.
C15_NoEmptyAggregate ==
    /\ \A i \in DOMAIN mockNetworkData : mockNetworkData[i].metrics.dataPoints >= 1
    /\ \A i \in DOMAIN cordaNetworkData : cordaNetworkData[i].metrics.dataPoints >= 1
    /\ \A s \in networkDataVault : s.metrics.dataPoints >= 1

\* a migrate call with a batch of no data point has returned
C15_Witness ==
    /\ mockLastCall.method = "migrateNetworkDataFromSolana"
    /\ \E i \in DOMAIN mockNetworkData : mockNetworkData[i].metrics.dataPoints = 0


----------------------------------------------------------------------------

(* C16: the migration of a batch *)

\* C16: migrating a batch of N items never fails as a whole: the call
\* returns a MigrationResult with total N, successCount + failureCount = N
\* and one result per item in the order of the items, and an item is
\* migrated exactly if its own subflow did not throw, whatever happened to
\* the items before it.
C16_PerItemResults ==
    lastFlowResult.flow = "MigrateNetworkDataFromSolana" =>
        LET solanaData == lastFlowResult.input.solanaData
            thrown == lastFlowResult.input.thrown
            migrationResult == lastFlowResult.value
        IN /\ lastFlowResult.result = "OK"
           /\ migrationResult.totalDataPoints = Len(solanaData)
           /\ migrationResult.successCount + migrationResult.failureCount
                 = Len(solanaData)
           /\ migrationResult.failureCount = Cardinality(thrown)
           /\ Len(migrationResult.migrationResults) = Len(solanaData)
           /\ \A i \in DOMAIN solanaData :
                 /\ migrationResult.migrationResults[i].solanaDataId
                       = solanaData[i].timestamp
                 /\ migrationResult.migrationResults[i].success <=> i \notin thrown

\* a batch of two different items whose first item failed and whose second
\* item was migrated
C16_Witness ==
    /\ lastFlowResult.flow = "MigrateNetworkDataFromSolana"
    /\ Len(lastFlowResult.input.solanaData) = 2
    /\ lastFlowResult.input.solanaData[1] # lastFlowResult.input.solanaData[2]
    /\ lastFlowResult.input.thrown = {1}
    /\ lastFlowResult.value.migrationResults[2].success


\* the aggregation of the records one device has ingested
NextAggregate ==
    \/ Tick
    \/ \E q \in QualityDataSamples :
         Cardinality(dataSubmissions) < MaxSubmissions /\ submitData("device-1", q)
    \/ \E submissions \in Orderings(dataSubmissions) : AggregateSubmissions(submissions)

SpecAggregate == Init /\ [][NextAggregate]_vars

----------------------------------------------------------------------------

(* C17: the aggregation of one record set in two orders *)

\* the rounded region and metric fields of an aggregate
RoundedFields(data) ==
    [latitude |-> data.region.latitude, longitude |-> data.region.longitude,
     radius |-> data.region.radius,
     averageSignalStrength |-> data.averageSignalStrength,
     averageLatency |-> data.averageLatency,
     averageThroughput |-> data.averageThroughput,
     averageAvailability |-> data.averageAvailability,
     deviceCount |-> data.deviceCount, dataPoints |-> data.dataPoints]

C17_Witness ==
    /\ lastFlowResult.flow = "processDataSubmissions"
    /\ Len(lastFlowResult.input) = MaxSubmissions


----------------------------------------------------------------------------

(* C18: the anonymization of what is stored *)

IsInteger(x) == RoundToInteger(x) = x
IsTwoDecimals(x) == RoundTo2Decimals(x) = x

MetricsRounded(metrics) ==
    /\ IsInteger(metrics.averageSignalStrength)
    /\ IsInteger(metrics.averageLatency)
    /\ IsInteger(metrics.averageThroughput)
    /\ IsTwoDecimals(metrics.averageAvailability)

RegionRounded(region) ==
    /\ IsTwoDecimals(region.latitude)
    /\ IsTwoDecimals(region.longitude)
    /\ IsInteger(region.radius)

\* C18: anonymization is mandatory on every path into the permissioned
\* layer: every stored regional aggregate (the mock's list, the records
\* posted by the bridge, the vault) has signal, latency and throughput
\* rounded to integers and availability to 2 decimal places, and, where it
\* has coordinates, latitude and longitude rounded to 2 decimal places and
\* the radius to an integer.
C18_StoredAggregatesRounded ==
    /\ \A i \in DOMAIN mockNetworkData : MetricsRounded(mockNetworkData[i].metrics)
    /\ \A i \in DOMAIN cordaNetworkData :
          /\ MetricsRounded(cordaNetworkData[i].metrics)
          /\ RegionRounded(cordaNetworkData[i].region)
    /\ \A s \in networkDataVault : MetricsRounded(s.metrics) /\ RegionRounded(s.region)

\* the mock has stored the aggregate of a batch of three data points
C18_Witness ==
    \E i \in DOMAIN mockNetworkData : mockNetworkData[i].metrics.dataPoints = 3


----------------------------------------------------------------------------

(* C19, C20: the roll-up of existing records *)

RollUpFlows == {"AggregateNetworkDataFlow", "AggregateAndAnonymizeNetworkData"}

\* a roll-up flow has run on records it found
RolledUp == lastFlowResult.flow \in RollUpFlows /\ lastFlowResult.result # "NotFound"

\* C19: a roll-up of records of two different regions fails and produces no
\* output record, on every roll-up path.
C19_RegionMismatchRejected ==
    (RolledUp /\ Cardinality({lastFlowResult.input[i].region :
                                 i \in DOMAIN lastFlowResult.input}) > 1)
        => (lastFlowResult.result # "OK" /\ lastFlowResult.value = <<>>)

\* AggregateNetworkDataFlow has run on records of two different regions
C19_Witness ==
    /\ lastFlowResult.flow = "AggregateNetworkDataFlow"
    /\ lastFlowResult.result # "NotFound"
    /\ Cardinality({lastFlowResult.input[i].region :
                       i \in DOMAIN lastFlowResult.input}) > 1


\* the metrics of the records a roll-up has run on
RolledUpMetrics == [i \in DOMAIN lastFlowResult.input |-> lastFlowResult.input[i].metrics]

\* C20: the roll-up of a list of valid records of one region (two records
\* or more, which every roll-up path accepts as a list to combine) yields
\* a valid metrics record, whose dataPoints is the sum of the inputs'
\* dataPoints and whose metrics are the dataPoints-weighted averages
\* sum(metric_i * dataPoints_i) / sum(dataPoints_i), also when the
\* dataPoints of the inputs are all 0.
C20_WeightedRollUpDefined ==
    (/\ RolledUp
     /\ Len(lastFlowResult.input) > 1
     /\ \A i \in DOMAIN RolledUpMetrics : NetworkMetrics_isValid(RolledUpMetrics[i])
     /\ Cardinality({lastFlowResult.input[i].region :
                        i \in DOMAIN lastFlowResult.input}) = 1)
        => /\ lastFlowResult.result = "OK"
           /\ NetworkMetrics_isValid(lastFlowResult.value.metrics)
           /\ LET total == SumBy(RolledUpMetrics, "dataPoints", Len(RolledUpMetrics))
              IN /\ lastFlowResult.value.metrics.dataPoints = total
                 /\ \A field \in {"averageSignalStrength", "averageLatency",
                                  "averageThroughput", "averageAvailability",
                                  "qualityScore"} :
                       lastFlowResult.value.metrics[field]
                          = Weighted(RolledUpMetrics, field, total)

\* a roll-up has run on records of one region whose dataPoints are all 0
C20_Witness ==
    /\ RolledUp
    /\ Len(lastFlowResult.input) > 1
    /\ \A i \in DOMAIN lastFlowResult.input : lastFlowResult.input[i].metrics.dataPoints = 0


----------------------------------------------------------------------------

(* C21: the counts of an aggregate *)

\* The devices whose records the caller of CreateNetworkDataFlow aggregated
\* into the metrics it hands over: the record carries their number only.
ContributingDevices(metrics) ==
    IF metrics = RoundedMetrics THEN {"device-1", "device-2"}
    ELSE IF metrics = RawMetrics THEN {"device-1"}
    ELSE {}

\* C21: a regional aggregate built by roll-up has dataPoints equal to the
\* number of contributing records and deviceCount equal to the number of
\* distinct contributing devices, also when the same device contributed to
\* several rolled-up inputs.
C21_RollUpCountsDistinctDevices ==
    (RolledUp /\ lastFlowResult.result = "OK") =>
        /\ lastFlowResult.value.metrics.dataPoints
              = SumBy(RolledUpMetrics, "dataPoints", Len(RolledUpMetrics))
        /\ lastFlowResult.value.metrics.deviceCount
              = Cardinality(UNION {ContributingDevices(RolledUpMetrics[i]) :
                                      i \in DOMAIN RolledUpMetrics})
        /\ lastFlowResult.value.metrics.deviceCount
              <= lastFlowResult.value.metrics.dataPoints

\* C21: an aggregate built from raw records has dataPoints equal to the
\* number of records and deviceCount equal to the number of their devices.
C21_RawCounts ==
    /\ lastFlowResult.flow = "processDataSubmissions" =>
          /\ lastFlowResult.value.dataPoints = Len(lastFlowResult.input)
          /\ lastFlowResult.value.deviceCount
                = Cardinality({lastFlowResult.input[i].device :
                                  i \in DOMAIN lastFlowResult.input})
    /\ \A i \in DOMAIN mockNetworkData :
          mockNetworkData[i].metrics.deviceCount <= mockNetworkData[i].metrics.dataPoints


----------------------------------------------------------------------------

(* C22: the aggregation of zero records *)

ZeroAverages(metrics) ==
    /\ metrics.averageSignalStrength = DblZero
    /\ metrics.averageLatency = DblZero
    /\ metrics.averageThroughput = DblZero
    /\ metrics.averageAvailability = DblZero
    /\ metrics.deviceCount = 0
    /\ metrics.dataPoints = 0

\* C22: aggregating zero records is not an error: on every aggregation
\* entry point the result has metrics (the four averages, deviceCount,
\* dataPoints) and a region that are all zero.
C22_ZeroRecordsZeroAggregate ==
    /\ (lastFlowResult.flow \in RollUpFlows /\ lastFlowResult.input = <<>>) =>
          /\ lastFlowResult.result = "OK"
          /\ ZeroAverages(lastFlowResult.value.metrics)
          /\ lastFlowResult.value.region.latitude = DblZero
          /\ lastFlowResult.value.region.longitude = DblZero
          /\ lastFlowResult.value.region.radius = DblZero
    /\ \A i \in DOMAIN mockNetworkData :
          mockNetworkData[i].metrics.dataPoints = 0 =>
              ZeroAverages(mockNetworkData[i].metrics)
    /\ \A f \in finishedRuns :
          f.submissions = {} => f.outcome = "NoData"

\* the aggregation of the bridge on no record: all zero
C22_BridgeZeroAggregate ==
    LET data == aggregateNetworkData({}, [start |-> 0, end |-> now], now)
    IN /\ data.averageSignalStrength = DblZero /\ data.averageLatency = DblZero
       /\ data.averageThroughput = DblZero /\ data.averageAvailability = DblZero
       /\ data.deviceCount = 0 /\ data.dataPoints = 0
       /\ data.region = [latitude |-> DblZero, longitude |-> DblZero, radius |-> DblZero]

----------------------------------------------------------------------------
(* The Solana mock on its own *)

solanaFrame ==
    UNCHANGED <<now, lastReward, clientVars, flowVars, agreementVars, contractVars, lastTx,
                outsideCorda>>

NextSolana ==
    \/ \E deviceId \in SolanaDeviceIds, owner \in SolanaOwners :
         registerDevice(deviceId, "Smartphone", TokyoLocation, owner) /\ solanaFrame
    \/ \E deviceId \in SolanaDeviceIds, qualityData \in SolanaQualitySamples :
         MockSolanaProgram_submitData(deviceId, qualityData) /\ solanaFrame
    \/ \E deviceId \in SolanaDeviceIds : toggleDeviceStatus(deviceId) /\ solanaFrame
    \/ simulateDataSubmission /\ solanaFrame
    \/ MockSolanaProgram_reset /\ solanaFrame
    \/ MockSolanaProgram_initialize /\ solanaFrame

SpecSolana == Init /\ [][NextSolana]_vars

----------------------------------------------------------------------------
(* The reward engine and the device registry of the Solana mock *)

\* a step that is a call of submitData, by a caller or by the timer
SubmitStep ==
    /\ solanaLastCall'.method \in {"submitData", "simulateDataSubmission"}
    /\ <<solanaState, solanaLastCall>>' # <<solanaState, solanaLastCall>>

Emitted(call, event) == \E i \in 1..Len(call.events) : call.events[i] = event

\* C23: a submission for a device id that is not registered fails with
\* "Device not found" and one for a device whose isActive is false fails
\* with "Device is not active"; in both cases no device, no counter of the
\* program state and not the reward vault changes, and no dataSubmitted
\* event is emitted.
C23_RejectedSubmissionChangesNothing ==
    [][SubmitStep =>
         LET deviceId == solanaLastCall'.deviceId IN
         /\ deviceId \notin DOMAIN devices =>
              /\ solanaLastCall'.result = "Device not found"
              /\ UNCHANGED solanaState
              /\ ~Emitted(solanaLastCall', "dataSubmitted")
         /\ (deviceId \in DOMAIN devices /\ ~devices[deviceId].isActive) =>
              /\ solanaLastCall'.result = "Device is not active"
              /\ UNCHANGED solanaState
              /\ ~Emitted(solanaLastCall', "dataSubmitted")]_vars

\* a rejected submission for a deactivated device that has earned rewards
C23_Witness ==
    /\ solanaLastCall.method = "submitData"
    /\ solanaLastCall.result = "Device is not active"
    /\ devices[solanaLastCall.deviceId].totalRewardsEarned > 0

\* a rejected submission for a device that was never registered
C23_WitnessUnknown ==
    /\ solanaLastCall.method = "submitData"
    /\ solanaLastCall.result = "Device not found"
    /\ programState.totalRewardsDistributed > 0

\* a call of submitData that was accepted
AcceptedSubmitStep == SubmitStep /\ solanaLastCall'.result = "OK"

\* C24: an accepted submission adds 1 to the device's totalUptime, adds the
\* reward to its totalRewardsEarned and to totalRewardsDistributed, takes
\* it from the reward vault and changes no other device; the reward is the
\* one for the totalUptime before the increment, so the first submission of
\* the quickstart data earns 2223 (bonus exactly 1.0) and leaves
\* totalUptime = 1.
C24_AcceptedSubmissionUpdates ==
    [][AcceptedSubmitStep =>
         LET deviceId == solanaLastCall'.deviceId
             qualityData == solanaLastCall'.qualityData
             before == devices[deviceId]
             after == devices'[deviceId]
             rewardAmount == after.totalRewardsEarned - before.totalRewardsEarned
         IN /\ after.totalUptime = before.totalUptime + 1
            /\ rewardAmount = calculateReward(qualityData, before.totalUptime)
            /\ rewardAmount = solanaLastCall'.rewardAmount
            /\ programState'.totalRewardsDistributed =
                 programState.totalRewardsDistributed + rewardAmount
            /\ programState'.totalDevices = programState.totalDevices
            /\ rewardVault' = rewardVault - rewardAmount
            /\ DOMAIN devices' = DOMAIN devices
            /\ \A other \in DOMAIN devices \ {deviceId} : devices'[other] = devices[other]
            /\ (before.totalUptime = 0 /\ qualityData = QuickstartQualityData) =>
                 (rewardAmount = 2223 /\ after.totalUptime = 1)]_vars

\* the second submission of a device, beside another device that has earned
\* rewards: the bonus for uptime 1 makes the quickstart data worth 2224
C24_Witness ==
    /\ solanaLastCall.method = "submitData"
    /\ solanaLastCall.result = "OK"
    /\ solanaLastCall.qualityData = QuickstartQualityData
    /\ solanaLastCall.rewardAmount = 2224
    /\ devices[solanaLastCall.deviceId].totalUptime = 2
    /\ \E other \in DOMAIN devices \ {solanaLastCall.deviceId} :
          devices[other].totalRewardsEarned > 0

----------------------------------------------------------------------------
(* calculateReward as a function of its arguments *)

\* signal strengths, latencies and throughputs on, next to and between the
\* tier boundaries; availability 0.95 and 1.0; the first two uptimes
RewardSignalStrengths == {-65, -70, -75, -80, -85}
RewardLatencies == {45, 50, 99, 100}
RewardThroughputs == {1200000, 1000000, 500001, 500000}
RewardAvailabilities == {95, 100}
RewardUptimes == {0, 1}

InitReward ==
    /\ Constructed
    /\ \E signalStrength \in RewardSignalStrengths, latency \in RewardLatencies,
          throughput \in RewardThroughputs, availability \in RewardAvailabilities,
          uptime \in RewardUptimes :
         lastReward = [qualityData |-> SolanaQualityData(signalStrength, latency, throughput,
                                                         availability, 100, TokyoLocation),
                       uptime |-> uptime, returned |-> FALSE, rewardAmount |-> 0]

NextReward == CalculateRewardReturns

SpecReward == InitReward /\ [][NextReward]_vars

\* the tiers as stated, in tenths: a value on a boundary is in the lower tier
SignalTierTenths(signalStrength) ==
    CASE signalStrength > -70 -> 15
      [] signalStrength <= -70 /\ signalStrength > -80 -> 8
      [] signalStrength <= -80 -> 3

LatencyTierTenths(latency) ==
    CASE latency < 50 -> 12
      [] latency >= 50 /\ latency < 100 -> 10
      [] latency >= 100 -> 6

ThroughputTierTenths(throughput) ==
    CASE throughput > 1000000 -> 13
      [] throughput <= 1000000 /\ throughput > 500000 -> 10
      [] throughput <= 500000 -> 7

\* floor(1000 * s/10 * l/10 * t/10 * a/100 * (1 + uptime/2000)), exactly
StatedReward(qualityData, uptime) ==
    (SignalTierTenths(qualityData.signalStrength)
       * LatencyTierTenths(qualityData.latency)
       * ThroughputTierTenths(qualityData.throughput)
       * ((qualityData.availability.n * 100) \div qualityData.availability.d)
       * (2000 + uptime)) \div 200000

\* C25: the reward is floor(1000 * signalMult * latencyMult * throughputMult
\* * availability * uptimeBonus) with the tiers taken strictly (a value on
\* a boundary falls in the lower tier); the quickstart data at uptime 0
\* earn 2223.
C25_RewardIsStatedFormula ==
    lastReward.returned =>
        lastReward.rewardAmount = StatedReward(lastReward.qualityData, lastReward.uptime)

\* the quickstart data at uptime 0 earn 2223
C25_QuickstartReward ==
    (lastReward.returned /\ lastReward.qualityData = QuickstartQualityData
        /\ lastReward.uptime = 0) => lastReward.rewardAmount = 2223

\* the reward is the stated one or one token less
C25_RewardWithinOneToken ==
    lastReward.returned =>
        lastReward.rewardAmount \in
            {StatedReward(lastReward.qualityData, lastReward.uptime) - 1,
             StatedReward(lastReward.qualityData, lastReward.uptime)}

\* the calculation of the quickstart data has returned
C25_WitnessQuickstart ==
    /\ lastReward.returned
    /\ lastReward.qualityData = QuickstartQualityData
    /\ lastReward.uptime = 0

\* a value on a tier boundary earns what a value inside the lower tier earns
C25_BoundariesInLowerTier ==
    lastReward.returned =>
        LET q == lastReward.qualityData
            Same(other) == lastReward.rewardAmount = calculateReward(other, lastReward.uptime)
        IN /\ q.signalStrength = -70 => Same([q EXCEPT !.signalStrength = -75])
           /\ q.signalStrength = -80 => Same([q EXCEPT !.signalStrength = -85])
           /\ q.latency = 50 => Same([q EXCEPT !.latency = 99])
           /\ q.latency = 100 => Same([q EXCEPT !.latency = 120])
           /\ q.throughput = 1000000 => Same([q EXCEPT !.throughput = 500001])
           /\ q.throughput = 500000 => Same([q EXCEPT !.throughput = 400000])

\* totalUptime, totalRewardsEarned and isActive of a device
Cumulative(device) ==
    <<device.totalUptime, device.totalRewardsEarned, device.isActive>>

\* C26, its last clause: registering an id that is already registered does
\* not reset or replace the accumulated state (totalUptime,
\* totalRewardsEarned, isActive) of the device.
C26_ReRegistrationKeepsState ==
    [][(solanaLastCall'.method = "registerDevice"
          /\ programState'.totalDevices # programState.totalDevices
          /\ solanaLastCall'.deviceId \in DOMAIN devices)
         => Cumulative(devices'[solanaLastCall'.deviceId])
              = Cumulative(devices[solanaLastCall'.deviceId])]_vars

\* no operation deletes a registered device, and only submitData and
\* toggleDeviceStatus change its totalUptime, totalRewardsEarned and isActive
C26_DevicesKeepAccumulatedState ==
    [][/\ DOMAIN devices \subseteq DOMAIN devices'
       /\ \A deviceId \in DOMAIN devices \cap DOMAIN devices' :
            Cumulative(devices'[deviceId]) # Cumulative(devices[deviceId]) =>
               solanaLastCall'.method \in
                  {"submitData", "simulateDataSubmission", "toggleDeviceStatus"}]_vars

\* a device with rewards has been registered again
C26_Witness ==
    /\ solanaLastCall.method = "registerDevice"
    /\ programState.totalDevices > Cardinality(DOMAIN devices)
    /\ programState.totalRewardsDistributed > 0

\* C27: in every reachable state the counter programState.totalDevices is
\* the number of registered devices, as getAllDevices and
\* getNetworkStats().totalDevices report it, whatever ids were registered,
\* repeated ones included.
C27_TotalDevicesCountsDevices ==
    /\ programState.totalDevices = getNetworkStats_totalDevices
    /\ programState.totalDevices = Cardinality(getAllDevices)

\* a device that registerDevice has just stored is active and has no uptime
\* and no rewards
C27_NewDeviceFields ==
    [][(solanaLastCall'.method = "registerDevice"
          /\ programState'.totalDevices # programState.totalDevices)
         => LET device == devices'[solanaLastCall'.deviceId] IN
            /\ device.isActive
            /\ device.totalUptime = 0
            /\ device.totalRewardsEarned = 0]_vars

\* both devices are registered and counted
C27_WitnessDistinctIds ==
    /\ DOMAIN devices = SolanaDeviceIds
    /\ programState.totalDevices = 2

\* a call of toggleDeviceStatus
ToggleStep ==
    /\ solanaLastCall'.method = "toggleDeviceStatus"
    /\ <<solanaState, solanaLastCall>>' # <<solanaState, solanaLastCall>>

\* C28: toggleDeviceStatus on a registered device negates isActive and
\* leaves its totalUptime and totalRewardsEarned, the other devices, the
\* counters of the program state and the reward vault as they were; a
\* second toggle restores isActive; on an id that is not registered it
\* fails and changes nothing.
C28_ToggleNegatesStatusOnly ==
    [][ToggleStep =>
         LET deviceId == solanaLastCall'.deviceId IN
         IF deviceId \in DOMAIN devices
         THEN /\ solanaLastCall'.result = "OK"
              /\ DOMAIN devices' = DOMAIN devices
              /\ devices'[deviceId].isActive = ~devices[deviceId].isActive
              /\ devices'[deviceId].totalUptime = devices[deviceId].totalUptime
              /\ devices'[deviceId].totalRewardsEarned = devices[deviceId].totalRewardsEarned
              /\ ToggledDevice(devices'[deviceId]).isActive = devices[deviceId].isActive
              /\ \A other \in DOMAIN devices \ {deviceId} : devices'[other] = devices[other]
              /\ UNCHANGED <<programState, rewardVault>>
         ELSE /\ solanaLastCall'.result = "Device not found"
              /\ UNCHANGED solanaState]_vars

\* a device that has earned rewards has been toggled back to active
C28_Witness ==
    /\ solanaLastCall.method = "toggleDeviceStatus"
    /\ solanaLastCall.result = "OK"
    /\ devices[solanaLastCall.deviceId].isActive
    /\ devices[solanaLastCall.deviceId].totalRewardsEarned > 0

\* a toggle of an id that is not registered, beside a registered device
C28_WitnessUnknown ==
    /\ solanaLastCall.method = "toggleDeviceStatus"
    /\ solanaLastCall.result = "Device not found"
    /\ DOMAIN devices # {}

----------------------------------------------------------------------------
(* Revenue sharing on the agreements that the ledger and the mock store; *)
(* one agreement in each is enough.                                      *)

NextRevenue ==
    \/ Tick
    \/ /\ agreementVault = {}
       /\ \E r \in CreateAgreementSamples :
            CreateRoamingAgreementFlow(r.terms, r.participants)
    \/ /\ DOMAIN mockRoamingAgreements = {}
       /\ \E terms \in MockAgreementTermsSamples :
            createRoamingAgreement(terms, MockNetworkDataSample)
    \/ \E id \in AgreementIds, u \in UsageSamples : CalculateRevenueSharingFlow(id, u)
    \/ \E id \in MockIds, u \in UsageSamples : calculateRevenueSharing(id, u)

SpecRevenue == Init /\ [][NextRevenue]_vars

\* a revenue sharing calculation that returned a result
RevenueSharingReturned ==
    /\ lastCalc.flow = "CalculateRevenueSharing"
    /\ lastCalc.result = "OK"

\* totalRevenue = dataUsage * costPerMB and sharedRevenue = totalRevenue *
\* revenueSharing / 100, the latter held in hundredths
RevenueSharingAsStated ==
    RevenueSharingReturned =>
        /\ lastCalc.value.totalRevenue = lastCalc.usage.dataUsage * lastCalc.usage.costPerMB
        /\ lastCalc.value.sharedRevenue =
             lastCalc.value.totalRevenue * lastCalc.record.terms.revenueSharing

\* C29: a revenue sharing calculation returns totalRevenue = dataUsage *
\* costPerMB and sharedRevenue = totalRevenue * revenueSharing / 100, and
\* for every stored agreement and non-negative usage
\* 0 <= sharedRevenue <= totalRevenue (sharedRevenue is in hundredths).
C29_SharedRevenueWithinTotal ==
    /\ RevenueSharingAsStated
    /\ (RevenueSharingReturned /\ lastCalc.usage.dataUsage >= 0
            /\ lastCalc.usage.costPerMB >= 0) =>
         /\ 0 <= lastCalc.value.sharedRevenue
         /\ lastCalc.value.sharedRevenue <= lastCalc.value.totalRevenue * 100

\* the same for the agreements of the ledger alone
C29_LedgerSharedRevenueWithinTotal ==
    lastCalc.impl = "corda" => C29_SharedRevenueWithinTotal

\* a calculation on an agreement of the ledger with revenue to share
C29_WitnessLedger ==
    /\ RevenueSharingReturned
    /\ lastCalc.impl = "corda"
    /\ lastCalc.value.totalRevenue > 0

\* 1000 MB at 0.01 per MB under 15%: totalRevenue 10.0, sharedRevenue 1.5,
\* in binary64 as both implementations compute them
C29_Example ==
    LET totalRevenue == DblMul(DblFromInt(1000), DblFromRatio(1, 100))
        sharedRevenue == DblMul(totalRevenue, DblDivInt(DblFromInt(15), 100))
    IN /\ totalRevenue = DblFromInt(10)
       /\ sharedRevenue = DblFromRatio(15, 10)

----------------------------------------------------------------------------
(* Concurrent commands on the roaming agreements.  The agreements are      *)
(* created and activated on day 0, before the first of the commands.       *)

SettingUp == now = 0 /\ flowsInFlight = {} /\ DOMAIN consumedVersions = {}

NextConcurrent ==
    \/ Tick
    \/ SettingUp /\ CreateRoamingAgreementFlow(ValidAgreementTerms(2), 2)
    \/ /\ SettingUp
       /\ \E id \in AgreementIdPool : ActivateRoamingAgreementFlow(id)
    \/ \E flow \in {"Execute", "Terminate"}, id \in AgreementIds : FlowQueriesVault(flow, id)
    \/ \E f \in flowsInFlight : FlowBuildsTransaction(f)
    \/ \E f \in flowsInFlight : FlowFinalises(f)

SpecConcurrent == Init /\ [][NextConcurrent]_vars

\* the records of an id
VersionsOf(vault, agreementId) == {s \in vault : s.id = agreementId}

C30_WitnessStaleCopy ==
    /\ lastTx.result = "OK"
    /\ lastTx.flow = "Terminate"
    /\ lastTx.outputs[1].lastExecutionTime < lastTx.inputs[1].lastExecutionTime

----------------------------------------------------------------------------
(* The time windows of the queries *)

NextTimeWindow ==
    \/ Tick
    \/ CreateNetworkDataFlow(Tokyo, RoundedMetrics)
    \/ migrateNetworkDataFromSolana(<<>>, "Tokyo")
    \/ \E startTime \in WindowInstants, endTime \in WindowInstants :
         startTime < endTime /\ QueryNetworkDataByTimeRangeFlow(startTime, endTime)
    \/ \E startTime \in WindowInstants, endTime \in WindowInstants :
         startTime < endTime /\ getNetworkInsights("Tokyo", startTime, endTime)

SpecTimeWindow == Init /\ [][NextTimeWindow]_vars

InWindow(timestamp, window) == window.start <= timestamp /\ timestamp < window.end

\* C31: every query and aggregation path filters by the half-open window
\* [start, end): a record whose timestamp equals start is included and one
\* whose timestamp equals end is excluded.
C31_WindowIsHalfOpen ==
    [][lastFlowResult' # lastFlowResult =>
         /\ lastFlowResult'.flow = "QueryNetworkDataByTimeRangeFlow" =>
              lastFlowResult'.value =
                 {data \in networkDataVault : InWindow(data.timestamp, lastFlowResult'.input)}
         /\ lastFlowResult'.flow = "getNetworkInsights" =>
              lastFlowResult'.value =
                 {i \in DOMAIN mockNetworkData :
                     /\ mockNetworkData[i].region = lastFlowResult'.input.region
                     /\ InWindow(mockNetworkData[i].timestamp, lastFlowResult'.input)}]_vars

\* the flow of the ledger leaves out the records stamped start and end
C31_LedgerWindowIsOpen ==
    [][(lastFlowResult' # lastFlowResult
          /\ lastFlowResult'.flow = "QueryNetworkDataByTimeRangeFlow") =>
         lastFlowResult'.value =
            {data \in networkDataVault :
                /\ lastFlowResult'.input.start < data.timestamp
                /\ data.timestamp < lastFlowResult'.input.end}]_vars

\* the mock takes in the records stamped start and end
C31_MockWindowIsClosed ==
    [][(lastFlowResult' # lastFlowResult /\ lastFlowResult'.flow = "getNetworkInsights") =>
         lastFlowResult'.value =
            {i \in DOMAIN mockNetworkData :
                /\ mockNetworkData[i].region = lastFlowResult'.input.region
                /\ lastFlowResult'.input.start <= mockNetworkData[i].timestamp
                /\ mockNetworkData[i].timestamp <= lastFlowResult'.input.end}]_vars

\* a query of the ledger whose window starts at the timestamp of a record
C31_WitnessStart ==
    /\ lastFlowResult.flow = "QueryNetworkDataByTimeRangeFlow"
    /\ \E data \in networkDataVault : data.timestamp = lastFlowResult.input.start

\* a query of the mock whose window ends at the timestamp of a record
C31_WitnessEnd ==
    /\ lastFlowResult.flow = "getNetworkInsights"
    /\ \E i \in DOMAIN mockNetworkData :
          mockNetworkData[i].timestamp = lastFlowResult.input.end

----------------------------------------------------------------------------
(* The Solana mock when the reward vault is nearly empty *)

\* what is left in the vault: enough for two rewards but one token, for one
\* reward, for less than one, nothing
LowVaultBalances == {4446, 2223, 1000, 0}

\* The program after many accepted submissions: device-1 has been registered
\* again since (registerDevice stores a new Device with zero totals), the
\* rewards distributed so far have left the vault at one of LowVaultBalances.
InitLowVault ==
    /\ ConstructedBesideProgram
    /\ lastReward = NoReward
    /\ \E balance \in LowVaultBalances :
          /\ rewardVault = balance
          /\ programState = [totalDevices |-> MaxRegistrations,
                             totalRewardsDistributed |-> InitialRewardVault - balance,
                             isActive |-> TRUE]
    /\ devices = [id \in {"device-1"} |->
                    NewDevice("device-1", "Smartphone", TokyoLocation, "owner-1")]

NextLowVault ==
    \/ \E deviceId \in SolanaDeviceIds, qualityData \in SolanaQualitySamples :
         MockSolanaProgram_submitData(deviceId, qualityData) /\ solanaFrame
    \/ \E deviceId \in SolanaDeviceIds : toggleDeviceStatus(deviceId) /\ solanaFrame
    \/ simulateDataSubmission /\ solanaFrame

SpecLowVault == InitLowVault /\ [][NextLowVault]_vars

----------------------------------------------------------------------------
(* The token accounting of the Solana mock *)

\* C33: what is left in the reward vault and what has been distributed add
\* up to the initial supply of 1,000,000,000 tokens in every state that
\* initialize, registerDevice, submitData, toggleDeviceStatus and reset reach.
C33_VaultPlusDistributedIsSupply ==
    rewardVault + programState.totalRewardsDistributed = 1000000000

\* rewards have been distributed to two devices, one of them registered before
C33_Witness ==
    /\ solanaLastCall.method = "submitData"
    /\ solanaLastCall.result = "OK"
    /\ rewardVault < InitialRewardVault - solanaLastCall.rewardAmount
    /\ \E deviceId \in DOMAIN devices :
          /\ devices[deviceId].totalRewardsEarned > 0
          /\ deviceId # solanaLastCall.deviceId

\* the program after a reset
C33_WitnessReset ==
    /\ solanaLastCall.method = "reset"
    /\ rewardVault = InitialRewardVault
    /\ programState.totalRewardsDistributed = 0


\* the sum of totalRewardsEarned over the devices of the map
RECURSIVE SumOfRewardsEarned(_)
SumOfRewardsEarned(ids) ==
    IF ids = {} THEN 0
    ELSE LET id == CHOOSE d \in ids : TRUE
         IN devices[id].totalRewardsEarned + SumOfRewardsEarned(ids \ {id})

\* C34: totalRewardsDistributed is the sum of totalRewardsEarned over the
\* registered devices, whatever sequence of registerDevice (of an id already
\* registered too), submitData and toggleDeviceStatus has been executed.
C34_DistributedIsSumOfEarned ==
    programState.totalRewardsDistributed = SumOfRewardsEarned(DOMAIN devices)

\* what holds instead: the devices never hold more than has been distributed
C34_DistributedCoversEarned ==
    programState.totalRewardsDistributed >= SumOfRewardsEarned(DOMAIN devices)

\* a device registered again after it had earned rewards: its total is zero,
\* the rewards it had earned are still counted as distributed
C34_WitnessReRegistered ==
    /\ solanaLastCall.method = "registerDevice"
    /\ devices[solanaLastCall.deviceId].totalRewardsEarned = 0
    /\ programState.totalRewardsDistributed > 0
    /\ \A id \in DOMAIN devices : devices[id].totalRewardsEarned = 0

----------------------------------------------------------------------------
(* The ids and the statuses of the mock permissioned network *)

\* a call of createRoamingAgreement or createInfrastructureContract that
\* has changed a store or its report
MockCreateStep ==
    /\ mockLastCall'.method \in {"createRoamingAgreement", "createInfrastructureContract"}
    /\ <<mockStores, mockLastCall>>' # <<mockStores, mockLastCall>>

\* the store a create call writes to
MockStoreOf(method, agreements, contracts) ==
    IF method = "createRoamingAgreement" THEN agreements ELSE contracts

\* C35: every call of createRoamingAgreement / createInfrastructureContract
\* returns an id that no record of its store has and adds exactly one
\* record; a record already stored is never replaced, even when two creates
\* read the same clock value.
C35_CreateAddsFreshRecord ==
    [][MockCreateStep =>
         LET before == MockStoreOf(mockLastCall'.method, mockRoamingAgreements,
                                   mockInfrastructureContracts)
             after == MockStoreOf(mockLastCall'.method, mockRoamingAgreements',
                                  mockInfrastructureContracts')
         IN /\ mockLastCall'.id \notin DOMAIN before
            /\ DOMAIN after = DOMAIN before \cup {mockLastCall'.id}
            /\ \A id \in DOMAIN before : after[id] = before[id]]_vars

\* what holds instead: a create at a clock value at which its store has no
\* record adds one record and leaves the others as they are
C35_CreateAtNewInstantAddsRecord ==
    [][MockCreateStep =>
         LET before == MockStoreOf(mockLastCall'.method, mockRoamingAgreements,
                                   mockInfrastructureContracts)
             after == MockStoreOf(mockLastCall'.method, mockRoamingAgreements',
                                  mockInfrastructureContracts')
         IN /\ mockLastCall'.id = now
            /\ DOMAIN after = DOMAIN before \cup {now}
            /\ \A id \in DOMAIN before \ {now} : after[id] = before[id]]_vars

\* two agreements created at different clock values, both stored
C35_WitnessTwoInstants ==
    /\ mockLastCall.method = "createRoamingAgreement"
    /\ Cardinality(DOMAIN mockRoamingAgreements) = 2

\* the mock with every operation taken again and again
SpecMockFair == SpecMock /\ WF_vars(NextMock)

\* C36: an agreement or contract created in the mock network reaches
\* ACTIVE through the public operations, so that execute can succeed on it
\* and getActiveAgreements returns it.
C36_CreatedBecomesActive ==
    (DOMAIN mockRoamingAgreements # {} \/ DOMAIN mockInfrastructureContracts # {})
       ~> (getActiveAgreements.roamingAgreements # {}
             \/ getActiveAgreements.infrastructureContracts # {})

\* what holds instead: every record of the mock is PENDING in every state,
\* getActiveAgreements returns two empty lists and no execute succeeds
C36_MockRecordsStayPending ==
    /\ \A id \in DOMAIN mockRoamingAgreements : mockRoamingAgreements[id].status = "PENDING"
    /\ \A id \in DOMAIN mockInfrastructureContracts :
          mockInfrastructureContracts[id].status = "PENDING"
    /\ getActiveAgreements = [roamingAgreements |-> {}, infrastructureContracts |-> {}]
    /\ mockLastCall.method \in {"executeRoamingAgreement", "executeInfrastructureContract"}
          => mockLastCall.result \in {"NotFound", "InvalidState"}

\* an execute of a stored agreement refused because it is not ACTIVE
C36_WitnessExecuteRefused ==
    /\ mockLastCall.method = "executeRoamingAgreement"
    /\ mockLastCall.id \in DOMAIN mockRoamingAgreements
    /\ mockLastCall.result = "InvalidState"

----------------------------------------------------------------------------
(* terminationTime and the status TERMINATED *)

\* terminationTime is set exactly when the status is TERMINATED
TerminationTimeMatchesStatus(s) ==
    (s.terminationTime # NullInstant) <=> (s.status = "TERMINATED")

\* C37: in every version of an agreement or contract that create, activate,
\* execute, settle and terminate produce, terminationTime is set if and only
\* if the status is TERMINATED.
C37_TerminationTimeIffTerminated ==
    /\ \A s \in agreementVault : TerminationTimeMatchesStatus(s)
    /\ \A c \in contractVault : TerminationTimeMatchesStatus(c)

\* what holds instead: a TERMINATED version always has its terminationTime
C37_TerminatedHasTerminationTime ==
    /\ \A s \in agreementVault : s.status = "TERMINATED" => s.terminationTime # NullInstant
    /\ \A c \in contractVault : c.status = "TERMINATED" => c.terminationTime # NullInstant

\* an agreement activated after its termination: ACTIVE, terminationTime set
C37_WitnessActiveWithTerminationTime ==
    /\ lastTx.result = "OK"
    /\ \E s \in agreementVault : s.status = "ACTIVE" /\ s.terminationTime # NullInstant

----------------------------------------------------------------------------
(* submitData and the callbacks registered for its events *)

NextListeners ==
    \/ \E event \in SubmissionEvents, callback \in CallbackKinds : on(event, callback)
    \/ registerDevice(AppDeviceId, "Smartphone", TokyoLocation, "owner-1") /\ solanaFrame
    \/ \E deviceId \in SolanaDeviceIds :
         MockSolanaProgram_submitData(deviceId, QuickstartQualityData) /\ solanaFrame
    \/ toggleDeviceStatus(AppDeviceId) /\ solanaFrame

SpecListeners == Init /\ [][NextListeners]_vars

\* C38: when submitData ends with an error, no device and no counter has
\* changed; a callback of dataSubmitted or deviceUpdated that throws neither
\* leaves the reward credited by a call that fails nor keeps the remaining
\* callbacks and events from being delivered.
C38_FailedSubmissionChangesNothing ==
    [][SubmitStep =>
         LET deviceId == solanaLastCall'.deviceId IN
         /\ solanaLastCall'.result # "OK" => UNCHANGED solanaState
         /\ (deviceId \in DOMAIN devices /\ devices[deviceId].isActive) =>
               \A event \in SubmissionEvents :
                  /\ Emitted(solanaLastCall', event)
                  /\ CallbacksCalled(event) = Len(listeners[event])]_vars

\* what holds instead: the same as long as no registered callback throws
C38_HoldsWithoutThrowingCallbacks ==
    [][(SubmitStep /\ \A event \in SubmissionEvents : ~emitThrows(event)) =>
         LET deviceId == solanaLastCall'.deviceId IN
         /\ solanaLastCall'.result # "OK" => UNCHANGED solanaState
         /\ (deviceId \in DOMAIN devices /\ devices[deviceId].isActive) =>
               /\ solanaLastCall'.result = "OK"
               /\ \A event \in SubmissionEvents :
                     /\ Emitted(solanaLastCall', event)
                     /\ CallbacksCalled(event) = Len(listeners[event])]_vars

\* a submission that failed in a callback of dataSubmitted: the reward is
\* credited, a second callback and deviceUpdated were not reached
C38_WitnessFailedButCredited ==
    /\ solanaLastCall.method = "submitData"
    /\ solanaLastCall.result = "Listener threw"
    /\ devices[solanaLastCall.deviceId].totalRewardsEarned = solanaLastCall.rewardAmount
    /\ rewardVault = InitialRewardVault - solanaLastCall.rewardAmount
    /\ listeners["dataSubmitted"] = <<"throws", "returns">>
    /\ ~Emitted(solanaLastCall, "deviceUpdated")

----------------------------------------------------------------------------
(* The demo simulator stopped and started again *)

NextDemo ==
    \/ startDemo
    \/ stopDemo
    \/ DemoTimePasses
    \/ \E timeout \in demoSimulator.actionTimeouts : ActionTimeoutFires(timeout)
    \/ \E run \in 1..Len(demoRuns) : ScenarioDurationElapses(run)

SpecDemo == Init /\ [][NextDemo]_vars

\* a run executes an action or goes on to its next scenario
RunGoesOn ==
    /\ demoLastStep'.kind \in {"action", "scenario"}
    /\ demoVars' # demoVars

\* C39: after stopDemo the run that was interrupted executes no further
\* action and starts no further scenario, and a startDemo after the stop
\* never has its run in progress together with the rest of the stopped one.
C39_StoppedRunDoesNothingMore ==
    [][/\ RunGoesOn => ~demoRuns[demoLastStep'.run].stopped
       /\ demoLastStep'.kind = "startDemo" => Cardinality(RunsInProgress') <= 1]_vars

\* what holds instead: stopDemo cancels the actions that are pending, so
\* no action of the scenario that was stopped is executed afterwards
C39_StopCancelsPendingActions ==
    [][/\ demoLastStep'.kind = "stopDemo" =>
            (demoSimulator'.actionTimeouts = {} /\ ~demoSimulator'.isRunning)
       /\ (RunGoesOn /\ demoLastStep'.kind = "action" /\ demoRuns[demoLastStep'.run].stopped)
            => \/ demoLastStep.kind # "stopDemo"
               \/ demoLastStep'.scenario # demoRuns[demoLastStep'.run].scenario]_vars

\* a stopped run has gone on to submit data while a second run is in progress
C39_WitnessStoppedRunSubmits ==
    /\ demoLastStep.kind = "action"
    /\ demoLastStep.scenario = 2
    /\ demoRuns[demoLastStep.run].stopped
    /\ Cardinality(RunsInProgress) = 2

\* a run that was never stopped has completed its three scenarios
C39_WitnessCompleted ==
    /\ demoLastStep.kind = "completed"
    /\ ~demoRuns[demoLastStep.run].stopped
    /\ DOMAIN mockRoamingAgreements # {}

----------------------------------------------------------------------------
(* The automatic data collection turned off and on *)

NextApp ==
    \/ registerDevice(AppDeviceId, "Smartphone", TokyoLocation, "owner-1") /\ solanaFrame
    \/ toggleDataCollection
    \/ \E checked \in BOOLEAN : ToggleChanged(checked)
    \/ \E interval \in webApp.intervals : AppIntervalFires(interval)
    \/ \E interval \in webApp.collecting, qualityData \in SolanaQualitySamples :
         AppSubmitsCollectedData(interval, qualityData)

SpecApp == Init /\ [][NextApp]_vars

NextMobile ==
    \/ startDataCollection
    \/ stopDataCollection
    \/ \E interval \in mobileClient.intervals : MobileIntervalFires(interval)
    \/ \E interval \in mobileClient.collecting, qualityData \in QualityDataSamples :
         MobileSubmitsCollectedData(interval, qualityData)

SpecMobile == Init /\ [][NextMobile]_vars

\* C40: at most one timer of the automatic data collection is submitting
\* at any time: while the collection is on there is one timer, also after it
\* has been turned off and on again within one interval.
C40_OneCollectionTimer ==
    /\ webApp.isDataCollectionActive => Cardinality(webApp.intervals) <= 1
    /\ mobileClient.isActive => Cardinality(mobileClient.intervals) <= 1

\* what holds instead: the SDK client never has more than one timer, and the
\* one it has is dataInterval
C40_ClientHasOneTimer ==
    /\ Cardinality(mobileClient.intervals) <= 1
    /\ mobileClient.intervals = IF mobileClient.dataInterval = 0 THEN {}
                                ELSE {mobileClient.dataInterval}
    /\ mobileClient.isActive <=> mobileClient.dataInterval # 0

\* no timer of the app submits while the collection is off
C40_OffStopsSubmissions ==
    [][(webApp'.submitters # webApp.submitters /\ webApp'.submitters # {})
          => webApp.isDataCollectionActive]_vars

\* two timers of the app have both submitted since the collection was last
\* turned on, and both are still running
C40_WitnessTwoTimersSubmit ==
    /\ webApp.isDataCollectionActive
    /\ webApp.submitters = {1, 2}
    /\ webApp.intervals = {1, 2}
    /\ solanaLastCall.method = "collectAndSubmitData"
    /\ solanaLastCall.result = "OK"

====
